---- MODULE Spec2Model ----
(***************************************************************************)
(* Decimal multiply / divide engine (multiplyDecimal, divideDecimal):      *)
(* digit kernels, the two transforms, the batch executor, the width        *)
(* dispatcher and the argument validator of FunctionsDecimalArithmetics.   *)
(*                                                                         *)
(* Operand values are integers of the 32-bit range; values of type Int256  *)
(* that the code computes from digit sequences (up to 10^76 and beyond)    *)
(* are kept as sign-and-magnitude records whose magnitude is a canonical   *)
(* most-significant-first decimal digit sequence.                          *)
(***************************************************************************)
EXTENDS Integers, Sequences, FiniteSets, TLC

(***************************************************************************)
(* Program constants.                                                      *)
(***************************************************************************)
\* the digit ceiling of the overflow checks and of the scale argument
MaxPrecision == 76
\* largest value of the C++ int that holds the running remainder of divide
IntMax == 2147483647
\* number of values of a UInt8 digit cell
ByteModulus == 256
\* 2^16, used to split a 32-bit value into halves
HalfModulus == ByteModulus * ByteModulus

(***************************************************************************)
(* Bounds of the model.                                                    *)
(***************************************************************************)
\* operands of the exhaustive range are -MaxOperand..MaxOperand
MaxOperand == 2
\* scales are drawn from 0..MaxLowScale and from the top of 0..76
MaxLowScale == 2
\* number of scales taken from the top of the range: 76-HighScales+1..76
HighScales == 2
\* reads past the end of the numerator that are followed before the run is
\* taken to leave mapped memory
MaxStrayReads == 2
\* rows of a batch
MaxRows == 2
\* length up to which the digit sequences given to a kernel are exhaustive
MaxKernelLen == 2

(***************************************************************************)
(* Integer arithmetic of the C++ types.                                    *)
(***************************************************************************)
IntMin == -IntMax - 1

\* x / d of C++ (quotient truncated toward zero), d # 0, d # IntMin
RECURSIVE CDiv(_, _)
CDiv(x, d) ==
    IF d < 0 THEN -CDiv(x, -d)
    ELSE IF x < 0 /\ x % d # 0 THEN (x \div d) + 1 ELSE x \div d

\* x % d of C++ (the remainder has the sign of x), d # 0, d # IntMin
CRem(x, d) ==
    LET m == IF d < 0 THEN -d ELSE d
        r == x % m
    IN  IF x < 0 /\ r # 0 THEN r - m ELSE r

\* conversion of an integer to UInt8: the low byte
ToUInt8(x) == x % ByteModulus

\* whether r * 10 + d is outside the range of int
MulAddOverflows(r, d) ==
    \/ r > (IntMax - d) \div 10
    \/ r = IntMin
    \/ r < 0 /\ r # IntMin
             /\ LET x == IntMax - (258 - d)
                IN  -r >= 26 + (x \div 10) + (IF x % 10 = 0 THEN 0 ELSE 1)

\* r * 10 + d reduced to the 32-bit two's complement range, r an int, d a byte
Wrap32MulAdd(r, d) ==
    LET hi == r \div HalfModulus
        lo == r % HalfModulus
        low == lo * 10 + d
        h2 == hi * 10 + (low \div HalfModulus)
        whi == ((h2 + (HalfModulus \div 2)) % HalfModulus) - (HalfModulus \div 2)
    IN  whi * HalfModulus + (low % HalfModulus)

(***************************************************************************)
(* Decimal digit sequences as the representation of Int256 values.         *)
(***************************************************************************)
Zeros(n) == [k \in 1..n |-> 0]

Reverse(s) == [k \in 1..Len(s) |-> s[Len(s) + 1 - k]]

\* s without its leading zero cells; <<0>> when every cell is zero
StripLeadingZeros(s) ==
    LET nz == {k \in 1..Len(s) : s[k] # 0}
    IN  IF nz = {} THEN <<0>>
        ELSE SubSeq(s, CHOOSE k \in nz : \A j \in nz : k <= j, Len(s))

\* one step of the carry resolution of a cell sequence, from its last cell
CarryStep(cells, st) ==
    LET v == cells[st.k] + st.carry
    IN  [k |-> st.k - 1, carry |-> v \div 10, out |-> <<v % 10>> \o st.out]

\* n steps of CarryStep, by halving, each half evaluated before the next
RECURSIVE CarryIterate(_, _, _)
CarryIterate(cells, st, n) ==
    IF n = 0 THEN st
    ELSE IF n = 1 THEN CarryStep(cells, st)
    ELSE CHOOSE r \in {CarryIterate(cells, mid, n - (n \div 2))
                        : mid \in {CarryIterate(cells, st, n \div 2)}} : TRUE

\* the digits of a small natural number
RECURSIVE NatDigits(_)
NatDigits(n) == IF n >= 10 THEN Append(NatDigits(n \div 10), n % 10) ELSE <<n>>

\* the digits of the sum of cells[k] * 10^(Len - k), cells >= 0, carries resolved
CarryFrom(cells) ==
    LET st == CarryIterate(cells, [k |-> Len(cells), carry |-> 0, out |-> <<>>],
                           Len(cells))
    IN  NatDigits(st.carry) \o st.out

\* the canonical digit sequence of the value of a cell sequence
Canonical(cells) ==
    IF \A k \in 1..Len(cells) : cells[k] < 10
    THEN StripLeadingZeros(cells)
    ELSE StripLeadingZeros(CarryFrom(cells))

\* comparison of the suffixes x[k..] and y[k..] of equally long sequences: -1, 0, 1
SuffixCmp(x, y, k) ==
    LET diff == {j \in k..Len(x) : x[j] # y[j]}
    IN  IF diff = {} THEN 0
        ELSE LET j == CHOOSE i \in diff : \A m \in diff : i <= m
             IN  IF x[j] < y[j] THEN -1 ELSE 1

\* comparison of canonical magnitudes: -1, 0, 1
MagCmp(x, y) ==
    IF Len(x) < Len(y) THEN -1
    ELSE IF Len(x) > Len(y) THEN 1
    ELSE SuffixCmp(x, y, 1)

\* x - y of canonical magnitudes, x >= y: cell k borrows when the suffix of x
\* after it is below that of y
MagSub(x, y) ==
    LET yp == Zeros(Len(x) - Len(y)) \o y
        cell(k) == x[k] - yp[k] - (IF SuffixCmp(x, yp, k + 1) < 0 THEN 1 ELSE 0)
    IN  StripLeadingZeros([k \in 1..Len(x) |-> (cell(k) + 10) % 10])

\* 2^255 and 2^256, the range of Int256
Pow2_255 ==
    <<5,7,8,9,6,0,4,4,6,1,8,6,5,8,0,9,7,7,1,1,7,8,5,4,9,2,5,0,4,3,4,3,9,5,3,9,
      2,6,6,3,4,9,9,2,3,3,2,8,2,0,2,8,2,0,1,9,7,2,8,7,9,2,0,0,3,9,5,6,5,6,4,8,
      1,9,9,6,8>>

Pow2_256 ==
    <<1,1,5,7,9,2,0,8,9,2,3,7,3,1,6,1,9,5,4,2,3,5,7,0,9,8,5,0,0,8,6,8,7,9,0,7,
      8,5,3,2,6,9,9,8,4,6,6,5,6,4,0,5,6,4,0,3,9,4,5,7,5,8,4,0,0,7,9,1,3,1,2,9,
      6,3,9,9,3,6>>

\* an Int256 value
Wide(neg, mag) == [neg |-> neg /\ mag # <<0>>, mag |-> mag]

\* reduction of a non-negative magnitude to the two's complement range of Int256
RECURSIVE WrapInt256(_)
WrapInt256(mag) ==
    IF MagCmp(mag, Pow2_256) >= 0 THEN WrapInt256(MagSub(mag, Pow2_256))
    ELSE IF MagCmp(mag, Pow2_255) >= 0 THEN Wide(TRUE, MagSub(Pow2_256, mag))
    ELSE Wide(FALSE, mag)

\* s * w in Int256, s in {-1, 1}; -(-2^255) wraps to itself
WideTimesSign(s, w) ==
    IF s = 1 \/ (w.neg /\ w.mag = Pow2_255) THEN w ELSE Wide(~w.neg, w.mag)

(***************************************************************************)
(* Int256 as two's complement limbs: LimbCount cells of 16 bits, the most  *)
(* significant first, as the wide integer type computes on its words.      *)
(***************************************************************************)
LimbCount == 16

LimbBase == HalfModulus

\* the Int256 value of a small natural number n
LimbsOfNat(n) == Zeros(LimbCount - 2) \o <<n \div LimbBase, n % LimbBase>>

\* the sign bit of x
LimbsNegative(x) == x[1] >= LimbBase \div 2

\* the cells k..LimbCount of x * m and the carry out of them, m a small
\* natural number; each cell is computed before the next
RECURSIVE LimbsMulPass(_, _, _)
LimbsMulPass(x, m, k) ==
    IF k > LimbCount THEN [carry |-> 0, out |-> <<>>]
    ELSE CHOOSE r \in {[carry |-> (x[k] * m + p.carry) \div LimbBase,
                        out |-> <<(x[k] * m + p.carry) % LimbBase>> \o p.out]
                       : p \in {LimbsMulPass(x, m, k + 1)}} : TRUE

\* x * m modulo 2^256
LimbsMul(x, m) == LimbsMulPass(x, m, 1).out

\* the cells k..LimbCount of x + y and the carry out of them
RECURSIVE LimbsAddPass(_, _, _)
LimbsAddPass(x, y, k) ==
    IF k > LimbCount THEN [carry |-> 0, out |-> <<>>]
    ELSE CHOOSE r \in {[carry |-> (x[k] + y[k] + p.carry) \div LimbBase,
                        out |-> <<(x[k] + y[k] + p.carry) % LimbBase>> \o p.out]
                       : p \in {LimbsAddPass(x, y, k + 1)}} : TRUE

\* x + y modulo 2^256
LimbsAdd(x, y) == LimbsAddPass(x, y, 1).out

\* the complement of the cells k..LimbCount of x
RECURSIVE LimbsComplement(_, _)
LimbsComplement(x, k) ==
    IF k > LimbCount THEN <<>>
    ELSE <<LimbBase - 1 - x[k]>> \o LimbsComplement(x, k + 1)

\* -x modulo 2^256
LimbsNegate(x) == LimbsAdd(LimbsComplement(x, 1), LimbsOfNat(1))

\* the quotient cells 1..k of the unsigned x divided by d, 0 < d < 2^15, and
\* the remainder of these cells; each cell is computed before the next
RECURSIVE LimbsDivPass(_, _, _)
LimbsDivPass(x, d, k) ==
    IF k = 0 THEN [rem |-> 0, out |-> <<>>]
    ELSE CHOOSE r \in {[rem |-> (p.rem * LimbBase + x[k]) % d,
                        out |-> Append(p.out, (p.rem * LimbBase + x[k]) \div d)]
                       : p \in {LimbsDivPass(x, d, k - 1)}} : TRUE

\* the remainder of the unsigned x divided by d
LimbsRem(x, d) == LimbsDivPass(x, d, LimbCount).rem

\* the quotient of the unsigned x divided by d
LimbsDiv(x, d) == LimbsDivPass(x, d, LimbCount).out


\* x > 10 of Int256
LimbsAboveTen(x) ==
    /\ ~LimbsNegative(x)
    /\ \/ \E k \in 1..(LimbCount - 1) : x[k] # 0
       \/ x[LimbCount] > 10

\* x >= 10 of Int256
LimbsAtLeastTen(x) ==
    /\ ~LimbsNegative(x)
    /\ \/ \E k \in 1..(LimbCount - 1) : x[k] # 0
       \/ x[LimbCount] >= 10

\* UInt8(x % 10) of Int256: the remainder has the sign of x
LimbsLastDigit(x) ==
    IF LimbsNegative(x)
    THEN ToUInt8(-LimbsRem(LimbsNegate(x), 10))
    ELSE LimbsRem(x, 10)

(***************************************************************************)
(* DecimalOpHerpers: the digit kernels.                                    *)
(***************************************************************************)
\* one iteration of the inner loop of multiply (for j = len2-1 .. 0)
MultiplyInnerStep(n1, num2, i_n1, st) ==
    LET sum == n1 * num2[st.j + 1] + st.result[i_n1 + st.i_n2 + 1] + st.carry
    IN  [result |-> [st.result EXCEPT ![i_n1 + st.i_n2 + 1] = ToUInt8(sum % 10)],
         j |-> st.j - 1, i_n2 |-> st.i_n2 + 1, carry |-> sum \div 10]

\* n iterations of the inner loop, by halving, each half evaluated before the next
RECURSIVE MultiplyInner(_, _, _, _, _)
MultiplyInner(n1, num2, i_n1, st, n) ==
    IF n = 0 THEN st
    ELSE IF n = 1 THEN MultiplyInnerStep(n1, num2, i_n1, st)
    ELSE CHOOSE r \in {MultiplyInner(n1, num2, i_n1, mid, n - (n \div 2))
                        : mid \in {MultiplyInner(n1, num2, i_n1, st, n \div 2)}} : TRUE


\* MultiplyOuterStep that adds the final carry into the last cell the inner
\* loop wrote instead of the cell after it
MultiplyOuterStepCarryBelow(num1, num2, st) ==
    LET r == MultiplyInner(num1[st.i + 1], num2, st.i_n1,
                           [result |-> st.result, j |-> Len(num2) - 1,
                            i_n2 |-> 0, carry |-> 0],
                           Len(num2))
        cell == st.i_n1 + r.i_n2
    IN  [result |-> IF r.carry > 0
                    THEN [r.result EXCEPT ![cell] = ToUInt8(@ + r.carry)]
                    ELSE r.result,
         i |-> st.i - 1, i_n1 |-> st.i_n1 + 1]

\* one iteration of the outer loop of multiply (for i = len1-1 .. 0)
MultiplyOuterStep(num1, num2, st) ==
    LET r == MultiplyInner(num1[st.i + 1], num2, st.i_n1,
                           [result |-> st.result, j |-> Len(num2) - 1,
                            i_n2 |-> 0, carry |-> 0],
                           Len(num2))
        cell == st.i_n1 + r.i_n2 + 1
    IN  [result |-> IF r.carry > 0
                    THEN [r.result EXCEPT ![cell] = ToUInt8(@ + r.carry)]
                    ELSE r.result,
         i |-> st.i - 1, i_n1 |-> st.i_n1 + 1]

\* n iterations of the outer loop, by halving, each half evaluated before the next
RECURSIVE MultiplyOuter(_, _, _, _)
MultiplyOuter(num1, num2, st, n) ==
    IF n = 0 THEN st
    ELSE IF n = 1 THEN MultiplyOuterStep(num1, num2, st)
    ELSE CHOOSE r \in {MultiplyOuter(num1, num2, mid, n - (n \div 2))
                        : mid \in {MultiplyOuter(num1, num2, st, n \div 2)}} : TRUE

\* multiply(num1, num2): the cells are reversed as a whole; the leading zero
\* cells found by the scan are not removed
multiply(num1, num2) ==
    IF Len(num1) = 0 \/ Len(num2) = 0 THEN <<0>>
    ELSE LET result == MultiplyOuter(num1, num2,
                                     [result |-> Zeros(Len(num1) + Len(num2)),
                                      i |-> Len(num1) - 1, i_n1 |-> 0],
                                     Len(num1)).result
         IN  IF \A k \in 1..Len(result) : result[k] = 0 THEN <<0>>
             ELSE Reverse(result)

\* getDigits(x): x >= 10 recurses on x / 10; the last cell is UInt8(x % 10),
\* which for a negative x is the low byte of a negative remainder
RECURSIVE getDigits(_)
getDigits(x) ==
    IF x >= 10 THEN Append(getDigits(x \div 10), x % 10)
    ELSE <<ToUInt8(CRem(x, 10))>>

\* fromDigits(digits): the weighted sum in Int256 arithmetic
fromDigits(digits) == WrapInt256(Canonical(digits))

\* one level of the recursion of getDigits on an Int256 x >= 10: the digit
\* x % 10 goes in front of the digits pushed so far and x / 10 is next
GetDigitsStep(st) ==
    [x |-> LimbsDiv(st.x, 10), out |-> <<LimbsLastDigit(st.x)>> \o st.out]

\* at most n levels of the recursion, by halving, each half evaluated before the next
RECURSIVE GetDigitsIterate(_, _)
GetDigitsIterate(st, n) ==
    IF n = 0 \/ ~LimbsAtLeastTen(st.x) THEN st
    ELSE IF n = 1 THEN GetDigitsStep(st)
    ELSE CHOOSE r \in {GetDigitsIterate(mid, n - (n \div 2))
                        : mid \in {GetDigitsIterate(st, n \div 2)}} : TRUE

\* getDigits(x) on the limbs of an Int256: a value below 2^256 has at most
\* 78 digits, so the recursion ends within 78 levels
getDigits256(x) ==
    LET st == GetDigitsIterate([x |-> x, out |-> <<>>], MaxPrecision + 2)
    IN  <<LimbsLastDigit(st.x)>> \o st.out


\* FromDigitsStep with a multiplier that saturates at 10^76, the largest power
\* of ten of the signed range, instead of wrapping
FromDigitsStepShort(digits, st) ==
    [i |-> st.i - 1,
     result |-> LimbsAdd(st.result, LimbsMul(st.multiplier, digits[st.i])),
     multiplier |-> IF Len(digits) - st.i >= MaxPrecision - 1 THEN st.multiplier
                    ELSE LimbsMul(st.multiplier, 10)]

\* one iteration of the loop of fromDigits, on the cell i of digits:
\* result += multiplier * (*i); multiplier *= 10; both modulo 2^256
FromDigitsStep(digits, st) ==
    [i |-> st.i - 1,
     result |-> LimbsAdd(st.result, LimbsMul(st.multiplier, digits[st.i])),
     multiplier |-> LimbsMul(st.multiplier, 10)]

\* n iterations of the loop, by halving, each half evaluated before the next
RECURSIVE FromDigitsIterate(_, _, _)
FromDigitsIterate(digits, st, n) ==
    IF n = 0 THEN st
    ELSE IF n = 1 THEN FromDigitsStep(digits, st)
    ELSE CHOOSE r \in {FromDigitsIterate(digits, mid, n - (n \div 2))
                        : mid \in {FromDigitsIterate(digits, st, n \div 2)}} : TRUE

\* fromDigits(digits) on the limbs of an Int256
fromDigits256(digits) ==
    FromDigitsIterate(digits,
                      [i |-> Len(digits), result |-> LimbsOfNat(0),
                       multiplier |-> LimbsOfNat(1)],
                      Len(digits)).result

\* the values a read past the end of the numerator is taken to yield
StrayBytes == {0, 9, ByteModulus - 1}

\* temp / divisor stored into a UInt8 cell, divisor # 0
QuotientByte(temp, divisor) ==
    IF temp = IntMin /\ divisor = -1 THEN 0 ELSE ToUInt8(CDiv(temp, divisor))

\* adds the undefined operations of a step to the results that follow it
WithUB(results, ub) == {[r EXCEPT !.ub = @ \cup ub] : r \in results}

\* the first loop of divide, once idx has passed the end of the vector: each
\* read number[++idx] yields an arbitrary byte or ends the process; stray
\* counts these reads
RECURSIVE DivideSeedStray(_, _, _, _)
DivideSeedStray(divisor, idx, temp, stray) ==
    IF ~(temp < divisor)
    THEN {[kind |-> "ok", idx |-> idx, temp |-> temp, ub |-> {}]}
    ELSE {[kind |-> "abort", idx |-> idx + 1, temp |-> temp, ub |-> {"stray_read"}]}
         \cup (IF stray >= MaxStrayReads THEN {}
               ELSE UNION {
                   WithUB(DivideSeedStray(divisor, idx + 1, Wrap32MulAdd(temp, g),
                                          stray + 1),
                          IF MulAddOverflows(temp, g)
                          THEN {"stray_read", "int_overflow"} ELSE {"stray_read"})
                   : g \in StrayBytes })

\* whether the first loop of divide runs another iteration inside the vector
SeedContinues(number, divisor, st) ==
    st.temp < divisor /\ st.idx + 1 < Len(number)

\* one iteration of the first loop: temp = temp * 10 + number[++idx]; an int
\* overflow (undefined) is recorded and the value taken modulo 2^32
SeedStep(number, st) ==
    [idx |-> st.idx + 1,
     temp |-> Wrap32MulAdd(st.temp, number[st.idx + 2]),
     overflowed |-> st.overflowed \/ MulAddOverflows(st.temp, number[st.idx + 2])]

\* at most n iterations of the first loop inside the vector, by halving, each half evaluated before the next
RECURSIVE SeedIterate(_, _, _, _)
SeedIterate(number, divisor, st, n) ==
    IF n = 0 \/ ~SeedContinues(number, divisor, st) THEN st
    ELSE IF n = 1 THEN SeedStep(number, st)
    ELSE CHOOSE r \in {SeedIterate(number, divisor, mid, n - (n \div 2))
                        : mid \in {SeedIterate(number, divisor, st, n \div 2)}} : TRUE

\* the first loop of divide: while (temp < divisor) temp = temp * 10 + number[++idx];
\* the results carry the undefined operations executed (ub); the process may
\* end at each of them
DivideSeed(number, divisor) ==
    LET st == SeedIterate(number, divisor,
                          [idx |-> 0, temp |-> number[1], overflowed |-> FALSE],
                          Len(number))
        rest == IF ~(st.temp < divisor)
                THEN {[kind |-> "ok", idx |-> st.idx, temp |-> st.temp, ub |-> {}]}
                ELSE DivideSeedStray(divisor, st.idx, st.temp, 0)
    IN  IF st.overflowed
        THEN WithUB({[kind |-> "abort", idx |-> st.idx, temp |-> st.temp, ub |-> {}]}
                    \cup rest, {"int_overflow"})
        ELSE rest

\* temp % divisor, divisor # 0
RemainderOf(temp, divisor) ==
    IF temp = IntMin /\ divisor = -1 THEN 0 ELSE CRem(temp, divisor)

\* one iteration of the second loop whose read is inside the vector:
\* ans.push_back(temp / divisor); temp = (temp % divisor) * 10 + number[++idx];
QuotientStep(number, divisor, st) ==
    [idx |-> st.idx + 1,
     temp |-> Wrap32MulAdd(RemainderOf(st.temp, divisor), number[st.idx + 2]),
     ans |-> Append(st.ans, QuotientByte(st.temp, divisor))]

\* at most n such iterations, by halving, each half evaluated before the next
RECURSIVE QuotientIterate(_, _, _, _)
QuotientIterate(number, divisor, st, n) ==
    IF n = 0 \/ ~(st.idx + 1 < Len(number)) THEN st
    ELSE IF n = 1 THEN QuotientStep(number, divisor, st)
    ELSE CHOOSE r \in {QuotientIterate(number, divisor, mid, n - (n \div 2))
                        : mid \in {QuotientIterate(number, divisor, st, n \div 2)}} : TRUE

\* temp / divisor and temp % divisor are divisions of the wide integer type,
\* which raise "Division by zero" for a zero divisor
DivisionThrows(divisor) == divisor = 0

\* DivideQuotient with the loop condition size > idx + 1: a numerator of one
\* digit yields no quotient digit and no division is executed
DivideQuotientLate(number, divisor, idx, temp) ==
    IF ~(Len(number) > idx + 1)
    THEN {[kind |-> "ok", ans |-> <<0>>, ub |-> {}]}
    ELSE IF DivisionThrows(divisor)
    THEN {[kind |-> "divzero", ans |-> <<>>, ub |-> {}]}
    ELSE LET st == QuotientIterate(number, divisor,
                                   [idx |-> idx, temp |-> temp, ans |-> <<>>],
                                   Len(number))
         IN  {[kind |-> "abort", ans |-> <<>>, ub |-> {"stray_read"}],
              [kind |-> "ok", ans |-> st.ans, ub |-> {"stray_read"}]}

\* the second loop of divide: while (size > idx) { ... }; its last iteration
\* reads number[size], past the end of the vector, into temp
DivideQuotient(number, divisor, idx, temp) ==
    IF ~(Len(number) > idx)
    THEN {[kind |-> "ok", ans |-> <<0>>, ub |-> {}]}
    ELSE IF DivisionThrows(divisor)
    THEN {[kind |-> "divzero", ans |-> <<>>, ub |-> {}]}
    ELSE LET st == QuotientIterate(number, divisor,
                                   [idx |-> idx, temp |-> temp, ans |-> <<>>],
                                   Len(number))
             ans == Append(st.ans, QuotientByte(st.temp, divisor))
         IN  {[kind |-> "abort", ans |-> <<>>, ub |-> {"stray_read"}],
              [kind |-> "ok", ans |-> ans, ub |-> {"stray_read"}]}

\* divide(number, divisor): the possible results of the kernel
divide(number, divisor) ==
    UNION {
        IF sd.kind = "abort"
        THEN {[kind |-> "abort", ans |-> <<>>, ub |-> sd.ub]}
        ELSE WithUB(DivideQuotient(number, divisor, sd.idx, sd.temp), sd.ub)
        : sd \in DivideSeed(number, divisor) }

(***************************************************************************)
(* The transforms DivideDecimalsImpl and MultiplyDecimalsImpl.             *)
(***************************************************************************)
Widths == {32, 64, 128, 256}

\* the precision, and so the largest scale, of the decimal type of each width
MaxDigitsOf(w) == CASE w = 32 -> 9 [] w = 64 -> 18 [] w = 128 -> 38 [] OTHER -> MaxPrecision

\* a.value * sign in the arithmetic of the operand's width: the most negative
\* value of the width is its own negation
NativeTimesSign(v, sign, w) ==
    IF sign = -1 /\ ~(w = 32 /\ v = IntMin) THEN -v ELSE v

Sign(v) == IF v < 0 THEN -1 ELSE 1

\* the most negative value of the native type of width w, -2^(w-1), as the
\* Int256 it converts to
MostNegative(w) ==
    [k \in 1..(LimbCount - (w \div 16)) |-> LimbBase - 1]
        \o <<LimbBase \div 2>> \o Zeros((w \div 16) - 1)

\* the largest value of the native type of width w, 2^(w-1) - 1
MostPositive(w) ==
    Zeros(LimbCount - (w \div 16))
        \o <<(LimbBase \div 2) - 1>> \o [k \in 1..((w \div 16) - 1) |-> LimbBase - 1]

\* a.value * sign_a with sign_a = a.value < 0 ? -1 : 1, in the arithmetic of
\* the native type of width w, and getDigits of the product converted to
\* Int256. The product of the most negative value and -1 overflows: the wide
\* integer type of the 256-bit decimal wraps to the same value; for the
\* built-in types the overflow is undefined, and the build either wraps or traps
NativeMagnitude(x, w) ==
    IF ~LimbsNegative(x)
    THEN {[kind |-> "ok", value |-> x, digits |-> getDigits256(x), ub |-> {}]}
    ELSE IF x # MostNegative(w)
    THEN {[kind |-> "ok", value |-> LimbsNegate(x),
           digits |-> getDigits256(LimbsNegate(x)), ub |-> {}]}
    ELSE IF w = 256
    THEN {[kind |-> "ok", value |-> x, digits |-> getDigits256(x), ub |-> {}]}
    ELSE {[kind |-> "ok", value |-> x, digits |-> getDigits256(x),
           ub |-> {"int_overflow"}],
          [kind |-> "abort", value |-> <<>>, digits |-> <<>>,
           ub |-> {"int_overflow"}]}

\* the field of an outcome that carries no value
NoValue == [neg |-> FALSE, mag |-> <<>>]

\* outcomes of one call of execute: the kind, the Int256 returned, the digit
\* sequence given to fromDigits and the undefined operations executed
Returned(sign, digits, ub) ==
    [kind |-> "value", value |-> WideTimesSign(sign, fromDigits(digits)),
     digits |-> digits, ub |-> ub]

Failed(kind, ub) == [kind |-> kind, value |-> NoValue, digits |-> <<>>, ub |-> ub]


\* DivideNumerator that removes scale_a - scale_b digits when scale_a is the
\* larger scale
DivideNumeratorCompensated(a, wa, scale_a, scale_b, result_scale) ==
    LET padded == getDigits(NativeTimesSign(a, Sign(a), wa))
                      \o Zeros(IF scale_b - scale_a > 0 THEN scale_b - scale_a ELSE 0)
                      \o Zeros(result_scale)
    IN  IF scale_a <= scale_b THEN padded
        ELSE IF scale_a - scale_b >= Len(padded) THEN <<0>>
        ELSE SubSeq(padded, 1, Len(padded) - (scale_a - scale_b))

\* the numerator DivideDecimalsImpl::execute gives to divide
DivideNumerator(a, wa, scale_a, scale_b, result_scale) ==
    getDigits(NativeTimesSign(a, Sign(a), wa))
        \o Zeros(IF scale_b - scale_a > 0 THEN scale_b - scale_a ELSE 0)
        \o Zeros(result_scale)

\* the divisor DivideDecimalsImpl::execute gives to divide
DivideDivisor(b) == b

\* DivideDecimalsImpl::execute
DivideExecute(a, b, wa, wb, scale_a, scale_b, result_scale) ==
    UNION {
        { IF r.kind = "abort" THEN Failed("abort", r.ub)
          ELSE IF r.kind = "divzero" THEN Failed("divzero", r.ub)
          ELSE IF Len(r.ans) > MaxPrecision THEN Failed("overflow", r.ub)
          ELSE Returned(Sign(a) * Sign(b), r.ans, r.ub)
          : r \in divide(a_digits, DivideDivisor(b)) }
        : a_digits \in {DivideNumerator(a, wa, scale_a, scale_b, result_scale)} }

\* the digit sequence of MultiplyDecimalsImpl::execute before rescaling
MultiplyProduct(a, b, wa, wb) ==
    multiply(getDigits(NativeTimesSign(a, Sign(a), wa)),
             getDigits(NativeTimesSign(b, Sign(b), wb)))

\* MultiplyExecute without the removal of digits when the result scale is
\* below scale_a + scale_b
MultiplyExecuteKeep(a, b, wa, wb, scale_a, scale_b, result_scale) ==
    LET multiplied == MultiplyProduct(a, b, wa, wb)
        sign == Sign(a) * Sign(b)
        checked(digits) ==
            IF Len(digits) > MaxPrecision THEN {Failed("overflow", {})}
            ELSE {Returned(sign, digits, {})}
    IN  IF result_scale > scale_a + scale_b
        THEN checked(multiplied \o Zeros(result_scale - (scale_a + scale_b)))
        ELSE checked(multiplied)

\* MultiplyDecimalsImpl::execute; pop_back on an empty vector is undefined:
\* the size wraps and the overflow check fires, or the process ends
MultiplyExecute(a, b, wa, wb, scale_a, scale_b, result_scale) ==
    LET multiplied == MultiplyProduct(a, b, wa, wb)
        sign == Sign(a) * Sign(b)
        checked(digits) ==
            IF Len(digits) > MaxPrecision THEN {Failed("overflow", {})}
            ELSE {Returned(sign, digits, {})}
    IN  IF result_scale > scale_a + scale_b
        THEN checked(multiplied \o Zeros(result_scale - (scale_a + scale_b)))
        ELSE IF result_scale < scale_a + scale_b
        THEN IF scale_a + scale_b - result_scale > Len(multiplied)
             THEN {Failed("overflow", {"pop_empty"}), Failed("abort", {"pop_empty"})}
             ELSE checked(SubSeq(multiplied, 1,
                                 Len(multiplied) - (scale_a + scale_b - result_scale)))
        ELSE checked(multiplied)

Execute(op, a, b, wa, wb, scale_a, scale_b, result_scale) ==
    IF op = "multiplyDecimal"
    THEN MultiplyExecute(a, b, wa, wb, scale_a, scale_b, result_scale)
    ELSE DivideExecute(a, b, wa, wb, scale_a, scale_b, result_scale)

(***************************************************************************)
(* Processor: one row of each of the three batch shapes.                   *)
(***************************************************************************)
\* vectorConstant reading vec_first[0] in every row
vectorConstantFirstRow(op, vec_first, second_value, i, wa, wb, scale_a, scale_b, result_scale) ==
    Execute(op, vec_first[1], second_value, wa, wb, scale_a, scale_b, result_scale)

\* vectorConstant, row i: transform.execute(vec_first[i], second_value, ...)
vectorConstant(op, vec_first, second_value, i, wa, wb, scale_a, scale_b, result_scale) ==
    Execute(op, vec_first[i + 1], second_value, wa, wb, scale_a, scale_b, result_scale)

\* vectorVector, row i: transform.execute(vec_first[i], vec_second[i], ...)
vectorVector(op, vec_first, vec_second, i, wa, wb, scale_a, scale_b, result_scale) ==
    Execute(op, vec_first[i + 1], vec_second[i + 1], wa, wb, scale_a, scale_b, result_scale)

\* constantVector, row i: transform.execute(first_value, vec_second[i], ...)
constantVector(op, first_value, vec_second, i, wa, wb, scale_a, scale_b, result_scale) ==
    Execute(op, first_value, vec_second[i + 1], wa, wb, scale_a, scale_b, result_scale)

(***************************************************************************)
(* Arguments, types and columns of FunctionsDecimalArithmetics.            *)
(***************************************************************************)
\* a decimal type: storage width, precision and scale
DecimalType(w, p, s) == [name |-> "Decimal", width |-> w, precision |-> p, scale |-> s]

\* a type that is not a decimal: "UInt", "Int", "Float" or "String"
NumberType(name, w) == [name |-> name, width |-> w, precision |-> 0, scale |-> 0]

\* a full column of the values data
VectorColumn(data) == [kind |-> "vector", data |-> data, size |-> Len(data)]

\* a constant column: one value, n rows
ConstColumn(v, n) == [kind |-> "const", data |-> <<v>>, size |-> n]

\* a column that is neither a full column of the argument's type nor a constant
OtherColumn(data) == [kind |-> "other", data |-> data, size |-> Len(data)]

Argument(type, column) == [type |-> type, column |-> column]

isDecimal(type) == type.name = "Decimal"

isUnsignedInteger(type) == type.name = "UInt"

getDecimalScale(type) == type.scale

\* checkAndGetColumnConst<ColumnUInt16>(column): the constant column when the
\* column is a constant over UInt16 values, a null pointer otherwise
checkAndGetColumnConst(argument) ==
    argument.column.kind = "const" /\ argument.type.name = "UInt"
        /\ argument.type.width = 16

Max(x, y) == IF x >= y THEN x ELSE y

\* DefaultScale as the sum of the operand scales
DefaultScaleSum(scale_a, scale_b) == scale_a + scale_b

\* the scale of the result when no third argument is given
DefaultScale(scale_a, scale_b) == Max(scale_a, scale_b)

NoType == NumberType("none", 0)

\* the indexes i of the elements arguments[i] that getReturnTypeImpl reads, in
\* the order of its checks: none when the size is not 2 or 3, arguments[1]
\* only when arguments[0] is a decimal, arguments[2] only when the size is 3
ArgumentsRead(arguments) ==
    IF Len(arguments) # 2 /\ Len(arguments) # 3 THEN {}
    ELSE IF ~isDecimal(arguments[1].type) THEN {0}
    ELSE IF ~isDecimal(arguments[2].type) THEN {0, 1}
    ELSE IF Len(arguments) = 3 THEN {0, 1, 2}
    ELSE {0, 1}



\* getReturnTypeImpl that accepts a scale of up to 80
getReturnTypeImplScale80(arguments) ==
    IF Len(arguments) # 2 /\ Len(arguments) # 3
    THEN [kind |-> "arity_error", type |-> NoType]
    ELSE IF ~isDecimal(arguments[1].type) \/ ~isDecimal(arguments[2].type)
    THEN [kind |-> "type_error", type |-> NoType]
    ELSE IF Len(arguments) = 3 /\ ~isUnsignedInteger(arguments[3].type)
    THEN [kind |-> "type_error", type |-> NoType]
    ELSE IF Len(arguments) = 3 /\ ~checkAndGetColumnConst(arguments[3])
    THEN [kind |-> "abort", type |-> NoType]
    ELSE LET scale == IF Len(arguments) = 3
                      THEN arguments[3].column.data[1]
                      ELSE DefaultScale(getDecimalScale(arguments[1].type),
                                        getDecimalScale(arguments[2].type))
         IN  IF scale <= MaxPrecision + 4
             THEN [kind |-> "type", type |-> DecimalType(256, MaxPrecision, scale)]
             ELSE [kind |-> "type_error", type |-> NoType]

\* getReturnTypeImpl that examines the third argument before the operands
getReturnTypeImplThirdFirst(arguments) ==
    IF Len(arguments) # 2 /\ Len(arguments) # 3
    THEN [kind |-> "arity_error", type |-> NoType]
    ELSE IF Len(arguments) = 3 /\ ~isUnsignedInteger(arguments[3].type)
    THEN [kind |-> "type_error", type |-> NoType]
    ELSE IF Len(arguments) = 3 /\ ~checkAndGetColumnConst(arguments[3])
    THEN [kind |-> "abort", type |-> NoType]
    ELSE IF ~isDecimal(arguments[1].type) \/ ~isDecimal(arguments[2].type)
    THEN [kind |-> "type_error", type |-> NoType]
    ELSE LET scale == IF Len(arguments) = 3
                      THEN arguments[3].column.data[1]
                      ELSE DefaultScale(getDecimalScale(arguments[1].type),
                                        getDecimalScale(arguments[2].type))
         IN  IF scale <= MaxPrecision
             THEN [kind |-> "type", type |-> DecimalType(256, MaxPrecision, scale)]
             ELSE [kind |-> "type_error", type |-> NoType]

\* getReturnTypeImpl that throws the arity error only for fewer than 2 arguments
getReturnTypeImplAtLeastTwo(arguments) ==
    IF Len(arguments) < 2
    THEN [kind |-> "arity_error", type |-> NoType]
    ELSE IF ~isDecimal(arguments[1].type) \/ ~isDecimal(arguments[2].type)
    THEN [kind |-> "type_error", type |-> NoType]
    ELSE IF Len(arguments) >= 3 /\ ~isUnsignedInteger(arguments[3].type)
    THEN [kind |-> "type_error", type |-> NoType]
    ELSE IF Len(arguments) >= 3 /\ ~checkAndGetColumnConst(arguments[3])
    THEN [kind |-> "abort", type |-> NoType]
    ELSE LET scale == IF Len(arguments) >= 3
                      THEN arguments[3].column.data[1]
                      ELSE DefaultScale(getDecimalScale(arguments[1].type),
                                        getDecimalScale(arguments[2].type))
         IN  IF scale <= MaxPrecision
             THEN [kind |-> "type", type |-> DecimalType(256, MaxPrecision, scale)]
             ELSE [kind |-> "type_error", type |-> NoType]

\* getReturnTypeImpl(arguments): the result type or the exception thrown;
\* a read of an element past the end of arguments ends the process, and so
\* does the call through the pointer checkAndGetColumnConst returns, which is
\* dereferenced unchecked, when it is null
getReturnTypeImpl(arguments) ==
    IF \E i \in ArgumentsRead(arguments) : i >= Len(arguments)
    THEN [kind |-> "abort", type |-> NoType]
    ELSE IF Len(arguments) # 2 /\ Len(arguments) # 3
    THEN [kind |-> "arity_error", type |-> NoType]
    ELSE IF ~isDecimal(arguments[1].type) \/ ~isDecimal(arguments[2].type)
    THEN [kind |-> "type_error", type |-> NoType]
    ELSE IF Len(arguments) = 3 /\ ~isUnsignedInteger(arguments[3].type)
    THEN [kind |-> "type_error", type |-> NoType]
    ELSE IF Len(arguments) = 3 /\ ~checkAndGetColumnConst(arguments[3])
    THEN [kind |-> "abort", type |-> NoType]
    ELSE LET scale == IF Len(arguments) = 3
                      THEN arguments[3].column.data[1]
                      ELSE DefaultScale(getDecimalScale(arguments[1].type),
                                        getDecimalScale(arguments[2].type))
         IN  IF scale <= MaxPrecision
             THEN [kind |-> "type", type |-> DecimalType(256, MaxPrecision, scale)]
             ELSE [kind |-> "type_error", type |-> NoType]


\* resolveOverload whose 128-bit dividend block lacks the branch of the
\* 64-bit divisor: that pair falls through to return nullptr
resolveOverloadGap(arguments) ==
    IF isDecimal(arguments[1].type) /\ arguments[1].type.width \in Widths
       /\ isDecimal(arguments[2].type) /\ arguments[2].type.width \in Widths
       /\ ~(arguments[1].type.width = 128 /\ arguments[2].type.width = 64)
    THEN [first |-> arguments[1].type.width, second |-> arguments[2].type.width,
          result |-> 256]
    ELSE [first |-> 0, second |-> 0, result |-> 0]

\* the instantiation of DecimalArithmeticsImpl resolveOverload selects by the
\* widths of the first two argument types; none (a null result) otherwise
resolveOverload(arguments) ==
    IF isDecimal(arguments[1].type) /\ arguments[1].type.width \in Widths
       /\ isDecimal(arguments[2].type) /\ arguments[2].type.width \in Widths
    THEN [first |-> arguments[1].type.width, second |-> arguments[2].type.width,
          result |-> 256]
    ELSE [first |-> 0, second |-> 0, result |-> 0]

\* the branch DecimalArithmeticsImpl::execute takes on the columns of the
\* first two arguments
ShapeOf(arguments) ==
    IF arguments[1].column.kind = "vector"
    THEN IF arguments[2].column.kind = "const" THEN "vectorConstant"
         ELSE "vectorVector"
    ELSE IF arguments[1].column.kind = "const" THEN "constantVector"
    ELSE "illegal_column"

\* the locals of DecimalArithmeticsImpl::execute
FrameOf(arguments, type) ==
    [instance |-> resolveOverload(arguments), shape |-> ShapeOf(arguments),
     scale_a |-> getDecimalScale(arguments[1].type),
     scale_b |-> getDecimalScale(arguments[2].type),
     result_scale |-> getDecimalScale(type),
     size |-> IF arguments[1].column.kind = "vector"
              THEN arguments[1].column.size ELSE arguments[2].column.size]

NoFrame ==
    [instance |-> [first |-> 0, second |-> 0, result |-> 0], shape |-> "none",
     scale_a |-> 0, scale_b |-> 0, result_scale |-> 0, size |-> 0]

(***************************************************************************)
(* State.                                                                  *)
(***************************************************************************)
VARIABLES
    call,         \* the arguments of one call of Transform::execute
    pc,           \* "idle" before execute has run, "returned" after
    ret,          \* the outcome of the call
    function,     \* Transform::name of the function called on a batch
    arguments,    \* its arguments: types and columns
    phase,        \* "idle", "validate", "validated", "rows", "done" or "failed"
    result_type,  \* the type getReturnTypeImpl returned
    frame,        \* the locals of DecimalArithmeticsImpl::execute
    row,          \* the loop index i of the Processor
    vec_to,       \* the data of the result column under construction
    error,        \* the exception that left the call, "abort" when the process ended
    returned,     \* the column the caller received
    kcall,        \* the kernel of DecimalOpHerpers applied and its arguments
    kret,         \* what the kernel returned
    state,        \* LocalConnection::state, the optional state of the query
    next_packet_type, \* LocalConnection::next_packet_type, "none" when empty
    query,        \* what executeQuery produced for the query sent last
    reply,        \* what the last call on the connection returned to the client
    history,      \* the packets poll announced since the query was finished
    provider,     \* the credentials provider constructed, "none" before
    initialized,  \* the STS provider's flag of that name
    credentials,  \* whether the credentials held are expired (or empty)
    readers,      \* the threads holding m_reloadLock as readers
    writer,       \* the thread holding m_reloadLock as writer, 0 for none
    thread,       \* each thread's position in GetAWSCredentials
    obtained,     \* what GetAWSCredentials returned last to each thread
    refreshes     \* the reloads and the expiries of the credentials so far

callVars == <<call, pc, ret>>

functionVars ==
    <<function, arguments, phase, result_type, frame, row, vec_to, error, returned>>

kernelVars == <<kcall, kret>>

connectionVars == <<state, next_packet_type, query, reply, history>>

credentialVars ==
    <<provider, initialized, credentials, readers, writer, thread, obtained,
      refreshes>>

vars ==
    <<callVars, functionVars, kernelVars, connectionVars, credentialVars>>

(***************************************************************************)
(* Inputs.                                                                 *)
(***************************************************************************)
\* operand values beside the exhaustive range: the values of the documented
\* scenarios and two-digit values
SampleOperands == {10, 100, 123, 456}

Operands == (-MaxOperand..MaxOperand) \cup SampleOperands

LowScales == 0..MaxLowScale

HighScales76 == (MaxPrecision - HighScales + 1)..MaxPrecision

Scales == LowScales \cup HighScales76

\* the scale triples of the model: at most one of the three scales is high
ScaleTriples ==
    {t \in Scales \X Scales \X Scales :
        Cardinality({k \in 1..3 : t[k] \in HighScales76}) <= 1}

\* the widths an operand value is stored in: every width for the value 1,
\* the 256-bit type (which admits every scale) for the others
WidthsOf(v) == IF v = 1 THEN Widths ELSE {256}

NoOutcome == Failed("none", {})

NoKernelCall ==
    [fn |-> "none", x |-> <<>>, width |-> 0, num1 |-> <<>>, num2 |-> <<>>,
     divisor |-> 0]

NoKernelResult == [kind |-> "none", digits |-> <<>>, value |-> <<>>, ub |-> {}]

\* the threads that call GetAWSCredentials
MaxThreads == 2

Threads == 1..MaxThreads

\* the expiries of the credentials followed
MaxExpiries == 1

NoRefreshes == [refreshed |-> 0, skipped |-> {}, expiries |-> 0]

\* no credentials provider constructed
CredentialsIdle ==
    /\ provider = "none"
    /\ initialized = FALSE
    /\ credentials = "expired"
    /\ readers = {}
    /\ writer = 0
    /\ thread = [t \in Threads |-> "idle"]
    /\ obtained = [t \in Threads |-> "none"]
    /\ refreshes = NoRefreshes

\* LocalConnection::state when the optional is empty
NoState ==
    [present |-> FALSE, is_finished |-> FALSE, sent_totals |-> FALSE,
     sent_extremes |-> FALSE, sent_progress |-> FALSE, block |-> "none",
     exception |-> FALSE, async_in |-> FALSE, executor |-> FALSE]

NoQuery ==
    [source |-> "none", blocks |-> 0, totals |-> FALSE, extremes |-> FALSE,
     null_format |-> FALSE, throws |-> "never", max_execution_time |-> FALSE]

NoReply == [op |-> "none", value |-> "none"]

NoHistory == [announced |-> <<>>, since_end |-> {}]

\* a LocalConnection on which no query has been sent
ConnectionIdle ==
    /\ state = NoState
    /\ next_packet_type = "none"
    /\ query = NoQuery
    /\ reply = NoReply
    /\ history = NoHistory

NoCall ==
    [op |-> "none", a |-> 0, b |-> 0, wa |-> 0, wb |-> 0,
     scale_a |-> 0, scale_b |-> 0, result_scale |-> 0]

\* no column: the caller has received nothing, or a null result
NoColumn == [present |-> FALSE, data |-> <<>>]

FunctionNames == {"multiplyDecimal", "divideDecimal"}

\* the values of the rows of a batch
BatchOperands == {-1, 0, 1}

\* the scales of the operand types of a batch
BatchScales == {0, 2}

\* the values of a third argument of type UInt16
ThirdScales == {0, 2, 4, MaxPrecision, MaxPrecision + 1, 80}

DecimalArgument(w, s, column) == Argument(DecimalType(w, MaxDigitsOf(w), s), column)

\* the third arguments of the model for a batch of n rows: constants of type
\* UInt16, constants of other unsigned widths, a full UInt16 column, and
\* constants of types that are not unsigned integers
ThirdArguments(n) ==
    {Argument(NumberType("UInt", 16), ConstColumn(v, n)) : v \in ThirdScales}
    \cup {Argument(NumberType("UInt", w), ConstColumn(2, n)) : w \in {8, 64}}
    \cup {Argument(NumberType("UInt", 16), VectorColumn([k \in 1..n |-> 2])),
          Argument(NumberType("Int", 32), ConstColumn(2, n)),
          Argument(NumberType("String", 0), ConstColumn(0, n))}

\* the columns of the first two arguments of a batch of n rows; two constants
\* never reach executeImpl (useDefaultImplementationForConstants)
ColumnPairs(n) ==
    LET data == [1..n -> BatchOperands]
    IN  {<<VectorColumn(x), VectorColumn(y)>> : x \in data, y \in data}
        \cup {<<VectorColumn(x), ConstColumn(v, n)>> : x \in data, v \in BatchOperands}
        \cup {<<ConstColumn(v, n), VectorColumn(y)>> : v \in BatchOperands, y \in data}
        \cup (IF n = 1
              THEN {<<OtherColumn(x), VectorColumn(y)>> : x \in data, y \in data}
              ELSE {})

\* the width pairs of a pair of columns: all 16 for one row of ones, the
\* 256-bit types otherwise
WidthPairs(cols) ==
    IF cols[1].size = 1 /\ cols[1].data = <<1>> /\ cols[2].data = <<1>>
    THEN Widths \X Widths ELSE {<<256, 256>>}

\* the documented calls: 1.23 * 4.56 and 100 / 4
ScenarioArguments ==
    LET v(x, s) == DecimalArgument(256, s, VectorColumn(<<x>>))
        c(x) == Argument(NumberType("UInt", 16), ConstColumn(x, 1))
    IN  {<<v(123, 2), v(456, 2)>>, <<v(123, 2), v(456, 2), c(4)>>,
         <<v(100, 0), v(4, 0), c(2)>>}

\* argument lists of another length, or with an operand that is not a decimal
MalformedArguments ==
    LET d == DecimalArgument(32, 2, VectorColumn(<<1>>))
        f == Argument(NumberType("Float", 64), VectorColumn(<<1>>))
    IN  {<<>>, <<d>>}
        \cup {<<d, d, t, t>> : t \in ThirdArguments(1)}
        \cup {<<f, d>>, <<d, f>>, <<f, f>>}
        \cup {<<x, y, t>> : x \in {d, f}, y \in {f}, t \in ThirdArguments(1)}
        \cup {<<f, d, t>> : t \in ThirdArguments(1)}

(***************************************************************************)
(* One call of a transform.                                                *)
(***************************************************************************)
InitCall ==
    /\ call = NoCall
    /\ pc = "idle"
    /\ ret = NoOutcome
    /\ function = "none"
    /\ arguments = <<>>
    /\ phase = "idle"
    /\ result_type = NoType
    /\ frame = NoFrame
    /\ row = 0
    /\ vec_to = <<>>
    /\ error = "none"
    /\ returned = NoColumn
    /\ kcall = NoKernelCall
    /\ kret = NoKernelResult
    /\ ConnectionIdle
    /\ CredentialsIdle

\* the calls of op of the model: operands, widths that admit the scales, scales
CallsOf(op) ==
    UNION {{[op |-> op, a |-> a, b |-> b, wa |-> wa, wb |-> wb,
             scale_a |-> t[1], scale_b |-> t[2], result_scale |-> t[3]]
            : wa \in {w \in WidthsOf(a) : t[1] <= MaxDigitsOf(w)},
              wb \in {w \in WidthsOf(b) : t[2] <= MaxDigitsOf(w)}}
           : a \in Operands, b \in Operands, t \in ScaleTriples}

\* one call of MultiplyDecimalsImpl::execute
ExecuteMultiply ==
    /\ pc = "idle"
    /\ \E c \in CallsOf("multiplyDecimal") :
          /\ call' = c
          /\ \E o \in MultiplyExecute(c.a, c.b, c.wa, c.wb,
                                      c.scale_a, c.scale_b, c.result_scale) :
                ret' = o
    /\ pc' = "returned"
    /\ UNCHANGED <<functionVars, kernelVars, connectionVars, credentialVars>>

\* one call of DivideDecimalsImpl::execute
ExecuteDivide ==
    /\ pc = "idle"
    /\ \E c \in CallsOf("divideDecimal") :
          /\ call' = c
          /\ \E o \in DivideExecute(c.a, c.b, c.wa, c.wb,
                                    c.scale_a, c.scale_b, c.result_scale) :
                ret' = o
    /\ pc' = "returned"
    /\ UNCHANGED <<functionVars, kernelVars, connectionVars, credentialVars>>

NextCall == ExecuteMultiply \/ ExecuteDivide

SpecCall == InitCall /\ [][NextCall]_vars

(***************************************************************************)
(* One call of the function on a batch: validation, dispatch, rows.        *)
(***************************************************************************)
InitFunction ==
    /\ function = "none"
    /\ arguments = <<>>
    /\ phase = "idle"
    /\ result_type = NoType
    /\ frame = NoFrame
    /\ row = 0
    /\ vec_to = <<>>
    /\ error = "none"
    /\ returned = NoColumn
    /\ call = NoCall
    /\ pc = "idle"
    /\ ret = NoOutcome
    /\ kcall = NoKernelCall
    /\ kret = NoKernelResult
    /\ ConnectionIdle
    /\ CredentialsIdle

\* the framework calls the function on a list of arguments
Invoke ==
    /\ phase = "idle"
    /\ function' \in FunctionNames
    /\ \/ \E n \in 1..MaxRows : \E cols \in ColumnPairs(n) :
            \E w \in WidthPairs(cols), sa \in BatchScales, sb \in BatchScales :
               \E third \in {<<>>} \cup {<<t>> : t \in ThirdArguments(n)} :
                  arguments' = <<DecimalArgument(w[1], sa, cols[1]),
                                 DecimalArgument(w[2], sb, cols[2])>> \o third
       \/ arguments' \in ScenarioArguments \cup MalformedArguments
    /\ phase' = "validate"
    /\ UNCHANGED <<result_type, frame, row, vec_to, error, returned, callVars, kernelVars, connectionVars, credentialVars>>

\* getReturnTypeImpl: the framework validates the arguments before executeImpl
GetReturnTypeImpl ==
    /\ phase = "validate"
    /\ LET r == getReturnTypeImpl(arguments)
       IN  /\ result_type' = r.type
           /\ phase' = IF r.kind = "type" THEN "validated" ELSE "failed"
           /\ error' = IF r.kind = "type" THEN "none" ELSE r.kind
    /\ UNCHANGED <<function, arguments, frame, row, vec_to, returned, callVars, kernelVars, connectionVars, credentialVars>>

\* whether the branch taken reads the data of a second column that is not a
\* full column: second_col is null and second_col->getData() ends the process
SecondColumnMissing(shape, args) ==
    shape \in {"vectorVector", "constantVector"} /\ args[2].column.kind # "vector"

\* executeImpl -> resolveOverload -> DecimalArithmeticsImpl::execute, up to
\* vec_to.resize(size) of the Processor function of the shape
ExecuteImpl ==
    /\ phase = "validated"
    /\ LET f == FrameOf(arguments, result_type)
       IN  IF f.instance.result = 0
           THEN /\ phase' = "done"
                /\ UNCHANGED <<frame, vec_to, error>>
           ELSE IF f.shape = "illegal_column"
           THEN /\ phase' = "failed"
                /\ error' = "illegal_column"
                /\ frame' = f
                /\ UNCHANGED vec_to
           ELSE IF SecondColumnMissing(f.shape, arguments)
           THEN /\ phase' = "failed"
                /\ error' = "abort"
                /\ frame' = f
                /\ UNCHANGED vec_to
           ELSE /\ phase' = "rows"
                /\ frame' = f
                /\ vec_to' = [k \in 1..f.size |-> Wide(FALSE, <<0>>)]
                /\ UNCHANGED error
    /\ UNCHANGED <<function, arguments, result_type, row, returned, callVars, kernelVars, connectionVars, credentialVars>>

\* StoreRow that leaves the cell of a failing row and moves on to the next row
StoreRowContinue(o) ==
    /\ IF o.kind = "value"
       THEN vec_to' = [vec_to EXCEPT ![row + 1] = o.value]
       ELSE UNCHANGED vec_to
    /\ row' = row + 1
    /\ UNCHANGED <<phase, error>>
    /\ UNCHANGED <<function, arguments, result_type, frame, returned, callVars, kernelVars, connectionVars, credentialVars>>

\* the assignment vec_to[i] = transform.execute(...) of a row with outcome o:
\* a value is stored and the loop moves on; an exception leaves the call
StoreRow(o) ==
    /\ IF o.kind = "value"
       THEN /\ vec_to' = [vec_to EXCEPT ![row + 1] = o.value]
            /\ row' = row + 1
            /\ UNCHANGED <<phase, error>>
       ELSE /\ phase' = "failed"
            /\ error' = o.kind
            /\ UNCHANGED <<vec_to, row>>
    /\ UNCHANGED <<function, arguments, result_type, frame, returned, callVars, kernelVars, connectionVars, credentialVars>>

VectorConstantRow ==
    /\ phase = "rows"
    /\ frame.shape = "vectorConstant"
    /\ row < frame.size
    /\ \E o \in vectorConstant(function, arguments[1].column.data,
                               arguments[2].column.data[1], row,
                               frame.instance.first, frame.instance.second,
                               frame.scale_a, frame.scale_b, frame.result_scale) :
          StoreRow(o)

VectorVectorRow ==
    /\ phase = "rows"
    /\ frame.shape = "vectorVector"
    /\ row < frame.size
    /\ \E o \in vectorVector(function, arguments[1].column.data,
                             arguments[2].column.data, row,
                             frame.instance.first, frame.instance.second,
                             frame.scale_a, frame.scale_b, frame.result_scale) :
          StoreRow(o)

ConstantVectorRow ==
    /\ phase = "rows"
    /\ frame.shape = "constantVector"
    /\ row < frame.size
    /\ \E o \in constantVector(function, arguments[1].column.data[1],
                               arguments[2].column.data, row,
                               frame.instance.first, frame.instance.second,
                               frame.scale_a, frame.scale_b, frame.result_scale) :
          StoreRow(o)

\* return result_col, once the loop of the Processor function has ended
ReturnColumn ==
    /\ phase = "rows"
    /\ row = frame.size
    /\ phase' = "done"
    /\ returned' = [present |-> TRUE, data |-> vec_to]
    /\ UNCHANGED <<function, arguments, result_type, frame, row, vec_to, error, callVars, kernelVars, connectionVars, credentialVars>>

NextFunction ==
    \/ Invoke
    \/ GetReturnTypeImpl
    \/ ExecuteImpl
    \/ VectorConstantRow
    \/ VectorVectorRow
    \/ ConstantVectorRow
    \/ ReturnColumn

SpecFunction == InitFunction /\ [][NextFunction]_vars

(***************************************************************************)
(* One call of a kernel of DecimalOpHerpers.                               *)
(***************************************************************************)
\* cells of the Int256 inputs: the ends of the range of a cell, the sign bit,
\* and values around ten
SampleLimbs == {1, 9, 10, 12345, (LimbBase \div 2) - 1, LimbBase \div 2, LimbBase - 1}

\* Int256 inputs: a cell v at every position, zero above it and one of three
\* fillings below it, and small values; both signs, 1 to 78 digits
Int256Inputs ==
    {Zeros(pos - 1) \o <<v>> \o [k \in 1..(LimbCount - pos) |-> fill]
        : pos \in 1..LimbCount, v \in SampleLimbs, fill \in {0, 54321, LimbBase - 1}}
    \cup {LimbsOfNat(n) : n \in {0, 1, 9, 10, 99, 100, 1000000}}
    \cup {LimbsNegate(LimbsOfNat(n)) : n \in {1, 3, 10, 256}}

\* the digits the short digit sequences are made of
KernelDigits == {0, 1, 5, 9}

\* the digit sequences of length n over KernelDigits
RECURSIVE DigitSeqs(_)
DigitSeqs(n) ==
    IF n = 0 THEN {<<>>}
    ELSE {Append(q, d) : q \in DigitSeqs(n - 1), d \in KernelDigits}

ShortDigitSeqs == UNION {DigitSeqs(n) : n \in 0..MaxKernelLen}

\* sequences of 76 and of 38 digits: all nines, a power of ten, mixed digits
LongDigitSeqs ==
    UNION {{[k \in 1..n |-> 9], <<1>> \o Zeros(n - 1),
            [k \in 1..n |-> (7 * k) % 10]} : n \in {MaxPrecision, MaxPrecision \div 2}}

\* the operand pairs of the calls of multiply
MultiplyInputs ==
    (ShortDigitSeqs \X ShortDigitSeqs)
    \cup (LongDigitSeqs \X (LongDigitSeqs \cup DigitSeqs(0) \cup DigitSeqs(1)))
    \cup (DigitSeqs(1) \X LongDigitSeqs)

\* the numerators of the calls of divide: never empty, as getDigits returns them
DivideNumerators ==
    (ShortDigitSeqs \ DigitSeqs(0))
    \cup {<<1, 2, 3>>, <<1, 0, 0, 0>>, <<5, 9, 9, 9, 9, 9, 9, 9, 9, 0, 0>>,
          <<2, 1, 4, 7, 4, 8, 3, 6, 4, 8>>, <<1>> \o Zeros(20)}

\* the divisors of the calls of divide: small ones, 3 * 10^8, whose tenfold
\* remainders exceed the range of int, the largest int, a negative one, zero
DivideDivisors == {1, 2, 7, 10, 99, 300000000, IntMax, -2, 0}

InitKernel ==
    /\ kcall = NoKernelCall
    /\ kret = NoKernelResult
    /\ ConnectionIdle
    /\ CredentialsIdle
    /\ call = NoCall
    /\ pc = "idle"
    /\ ret = NoOutcome
    /\ function = "none"
    /\ arguments = <<>>
    /\ phase = "idle"
    /\ result_type = NoType
    /\ frame = NoFrame
    /\ row = 0
    /\ vec_to = <<>>
    /\ error = "none"
    /\ returned = NoColumn

\* one call of getDigits
KernelGetDigits ==
    /\ kcall.fn = "none"
    /\ \E x \in Int256Inputs :
          /\ kcall' = [NoKernelCall EXCEPT !.fn = "getDigits", !.x = x]
          /\ kret' = [NoKernelResult EXCEPT !.kind = "ok", !.digits = getDigits256(x)]
    /\ UNCHANGED <<callVars, functionVars, connectionVars, credentialVars>>

\* one call of fromDigits, on the digits getDigits returned
KernelFromDigits ==
    /\ kcall.fn = "getDigits"
    /\ kcall' = [kcall EXCEPT !.fn = "fromDigits", !.num1 = kret.digits]
    /\ kret' = [kret EXCEPT !.value = fromDigits256(kret.digits)]
    /\ UNCHANGED <<callVars, functionVars, connectionVars, credentialVars>>

\* one call of multiply
KernelMultiply ==
    /\ kcall.fn = "none"
    /\ \E p \in MultiplyInputs :
          /\ kcall' = [NoKernelCall EXCEPT !.fn = "multiply", !.num1 = p[1], !.num2 = p[2]]
          /\ kret' = [NoKernelResult EXCEPT !.kind = "ok", !.digits = multiply(p[1], p[2])]
    /\ UNCHANGED <<callVars, functionVars, connectionVars, credentialVars>>

\* one call of divide
KernelDivide ==
    /\ kcall.fn = "none"
    /\ \E number \in DivideNumerators, divisor \in DivideDivisors :
          /\ kcall' = [NoKernelCall EXCEPT !.fn = "divide", !.num1 = number,
                                           !.divisor = divisor]
          /\ \E o \in divide(number, divisor) :
                kret' = [NoKernelResult EXCEPT !.kind = o.kind, !.digits = o.ans,
                                              !.ub = o.ub]
    /\ UNCHANGED <<callVars, functionVars, connectionVars, credentialVars>>

\* the operand values of the native type of width w: small ones of both
\* signs and the ends of its range
NativeInputs(w) ==
    {LimbsOfNat(n) : n \in {0, 1, 9, 10, 12345}}
    \cup {LimbsNegate(LimbsOfNat(n)) : n \in {1, 9, 10, 12345}}
    \cup {MostPositive(w), LimbsNegate(MostPositive(w)), MostNegative(w)}

\* the first statements of either transform on one operand:
\* getDigits(a.value * sign_a)
KernelMagnitude ==
    /\ kcall.fn = "none"
    /\ \E w \in Widths : \E x \in NativeInputs(w) :
          /\ kcall' = [NoKernelCall EXCEPT !.fn = "magnitude", !.x = x, !.width = w]
          /\ \E o \in NativeMagnitude(x, w) :
                kret' = [NoKernelResult EXCEPT !.kind = o.kind, !.value = o.value,
                                              !.digits = o.digits, !.ub = o.ub]
    /\ UNCHANGED <<callVars, functionVars, connectionVars, credentialVars>>

NextKernel ==
    \/ KernelMagnitude
    \/ KernelGetDigits
    \/ KernelFromDigits
    \/ KernelMultiply
    \/ KernelDivide

SpecKernel == InitKernel /\ [][NextKernel]_vars

(***************************************************************************)
(* Reference arithmetic: the exact results the transforms are compared to. *)
(***************************************************************************)
Abs(x) == IF x < 0 THEN -x ELSE x

\* digits * 10^e for e >= 0, floor(digits / 10^(-e)) for e < 0
ScaleBy(digits, e) ==
    IF digits = <<0>> THEN <<0>>
    ELSE IF e >= 0 THEN digits \o Zeros(e)
    ELSE IF -e >= Len(digits) THEN <<0>>
    ELSE SubSeq(digits, 1, Len(digits) + e)

\* a * b * 10^(result_scale - scale_a - scale_b), truncated toward zero
ExactProduct(a, b, scale_a, scale_b, result_scale) ==
    Wide((a < 0) # (b < 0),
         ScaleBy(NatDigits(Abs(a) * Abs(b)), result_scale - scale_a - scale_b))

\* one step of the long division of a digit sequence by a small d > 0
LongDivisionStep(digits, d, st) ==
    LET t == st.rem * 10 + digits[st.k]
    IN  [k |-> st.k + 1, rem |-> t % d, out |-> Append(st.out, t \div d)]

RECURSIVE LongDivision(_, _, _, _)
LongDivision(digits, d, st, n) ==
    IF n = 0 THEN st
    ELSE IF n = 1 THEN LongDivisionStep(digits, d, st)
    ELSE CHOOSE r \in {LongDivision(digits, d, mid, n - (n \div 2))
                        : mid \in {LongDivision(digits, d, st, n \div 2)}} : TRUE

\* sign(a) * sign(b) * floor(|a| * 10^(scale_b - scale_a + result_scale) / |b|), b # 0
ExactQuotient(a, b, scale_a, scale_b, result_scale) ==
    LET n == ScaleBy(NatDigits(Abs(a)), scale_b - scale_a + result_scale)
        q == LongDivision(n, Abs(b), [k |-> 1, rem |-> 0, out |-> <<>>], Len(n)).out
    IN  Wide((a < 0) # (b < 0), StripLeadingZeros(q))

\* the sum of a[i] * b[k + 1 - i] over the i in lo..hi for which both cells
\* exist, by halving
RECURSIVE ConvolutionSum(_, _, _, _, _)
ConvolutionSum(a, b, k, lo, hi) ==
    IF lo > hi THEN 0
    ELSE IF lo = hi
    THEN IF k + 1 - lo \in 1..Len(b) THEN a[lo] * b[k + 1 - lo] ELSE 0
    ELSE ConvolutionSum(a, b, k, lo, (lo + hi) \div 2)
         + ConvolutionSum(a, b, k, ((lo + hi) \div 2) + 1, hi)

\* the digits of value(a) * value(b) for non-empty digit sequences: the
\* convolution of the cells, then the carries
DigitsProduct(a, b) ==
    Canonical([k \in 1..(Len(a) + Len(b) - 1) |-> ConvolutionSum(a, b, k, 1, Len(a))])

\* one of the ten additions of rem that make up rem * 10 + digit, reduced
\* modulo d as it goes, so that no intermediate value exceeds d
TenfoldStep(rem, d, st) ==
    IF st.acc >= d - rem
    THEN [acc |-> st.acc - (d - rem), q |-> st.q + 1]
    ELSE [acc |-> st.acc + rem, q |-> st.q]

RECURSIVE Tenfold(_, _, _, _)
Tenfold(rem, d, st, n) ==
    IF n = 0 THEN st
    ELSE CHOOSE r \in {Tenfold(rem, d, next, n - 1)
                        : next \in {TenfoldStep(rem, d, st)}} : TRUE

\* one step of the long division of a digit sequence by any d in 1..IntMax
BigDivisionStep(digits, d, st) ==
    LET t == Tenfold(st.rem, d,
                     [acc |-> digits[st.k] % d, q |-> digits[st.k] \div d], 10)
    IN  [k |-> st.k + 1, rem |-> t.acc, out |-> Append(st.out, t.q)]

RECURSIVE BigDivision(_, _, _, _)
BigDivision(digits, d, st, n) ==
    IF n = 0 THEN st
    ELSE IF n = 1 THEN BigDivisionStep(digits, d, st)
    ELSE CHOOSE r \in {BigDivision(digits, d, mid, n - (n \div 2))
                        : mid \in {BigDivision(digits, d, st, n \div 2)}} : TRUE

\* the digits of floor(value(digits) / d), d in 1..IntMax
DigitsQuotient(digits, d) ==
    StripLeadingZeros(BigDivision(digits, d, [k |-> 1, rem |-> 0, out |-> <<>>],
                                  Len(digits)).out)

\* one step of Horner's rule on the 256-bit limbs: acc * 10 + digits[k]
HornerStep(digits, st) ==
    [k |-> st.k + 1,
     acc |-> LimbsAdd(LimbsMul(st.acc, 10), LimbsOfNat(digits[st.k]))]

RECURSIVE HornerIterate(_, _, _)
HornerIterate(digits, st, n) ==
    IF n = 0 THEN st
    ELSE IF n = 1 THEN HornerStep(digits, st)
    ELSE CHOOSE r \in {HornerIterate(digits, mid, n - (n \div 2))
                        : mid \in {HornerIterate(digits, st, n \div 2)}} : TRUE

\* the Int256 value of the first n cells of a digit sequence
HornerLimbs(digits, n) ==
    HornerIterate(digits, [k |-> 1, acc |-> LimbsOfNat(0)], n).acc

\* every cell of a sequence is a decimal digit
AllDigits(digits) == \A k \in 1..Len(digits) : digits[k] \in 0..9

\* the exact result of the call
ExactResult ==
    IF call.op = "multiplyDecimal"
    THEN ExactProduct(call.a, call.b, call.scale_a, call.scale_b, call.result_scale)
    ELSE ExactQuotient(call.a, call.b, call.scale_a, call.scale_b, call.result_scale)

(***************************************************************************)
(* Claims about one call of a transform (SpecCall).                        *)
(***************************************************************************)
\* C1: multiplyDecimal either fails with overflow or returns the exact product
\* a * b * 10^(resultScale - scaleA - scaleB) truncated toward zero; it ends
\* in no other way.
C1_MultiplyExact ==
    (pc = "returned" /\ call.op = "multiplyDecimal")
        => \/ ret.kind = "overflow"
           \/ ret.kind = "value" /\ ret.value = ExactResult

\* C2: divideDecimal with b # 0 either fails with overflow or returns
\* sign(a) * sign(b) * floor(|a| * 10^(scaleB - scaleA + resultScale) / |b|).
C2_DivideExact ==
    (pc = "returned" /\ call.op = "divideDecimal" /\ call.b # 0)
        => \/ ret.kind = "overflow"
           \/ ret.kind = "value" /\ ret.value = ExactResult

\* C3: a call whose exact result has exactly 76 significant digits returns
\* that value, and a call whose exact result has exactly 77 digits fails with
\* the overflow error (both transforms; leading zeros are not counted).
C3_OverflowBoundary ==
    (pc = "returned" /\ (call.op = "divideDecimal" => call.b # 0))
        => /\ Len(ExactResult.mag) = MaxPrecision
                => ret.kind = "value" /\ ret.value = ExactResult
           /\ Len(ExactResult.mag) = MaxPrecision + 1 => ret.kind = "overflow"

\* C4: divideDecimal with a zero divisor ends in the division error for every
\* dividend and all scales: no value is returned and no digit sequence is
\* given to fromDigits.
C4_ZeroDivisorFails ==
    (pc = "returned" /\ call.op = "divideDecimal" /\ call.b = 0)
        => ret.kind = "divzero" /\ ret.value = NoValue /\ ret.digits = <<>>

\* a division of a non-zero dividend by zero has ended, at a high result scale
C4_Witness ==
    /\ pc = "returned" /\ call.op = "divideDecimal" /\ call.b = 0 /\ call.a # 0
    /\ call.result_scale = MaxPrecision
    /\ ret.kind = "divzero"

\* C8: every value returned by a transform comes from a digit sequence of at
\* most 76 digits, each in 0..9, and has magnitude at most 10^76 - 1.
C8_DigitsBounded ==
    (pc = "returned" /\ ret.kind = "value")
        => /\ Len(ret.digits) <= MaxPrecision
           /\ \A k \in 1..Len(ret.digits) : ret.digits[k] \in 0..9
           /\ Len(ret.value.mag) <= MaxPrecision

(***************************************************************************)
(* Claims about a call of the function on a batch (SpecFunction).          *)
(***************************************************************************)
\* validation has returned a type
ValidationSucceeded ==
    phase \in {"validated", "rows", "done"} \/ (phase = "failed" /\ frame # NoFrame)

\* the third argument is a constant of an unsigned integer type with a value in 0..76
AcceptableThird(argument) ==
    /\ argument.column.kind = "const"
    /\ argument.type.name = "UInt"
    /\ argument.column.data[1] \in 0..MaxPrecision

\* C5: validation accepts a third argument exactly when it is a constant
\* unsigned integer, of any unsigned width, with a value in 0..76; for every
\* other third argument it ends in the type error and in no other failure.
C5_ThirdArgumentValidation ==
    (phase # "validate" /\ Len(arguments) = 3
        /\ isDecimal(arguments[1].type) /\ isDecimal(arguments[2].type))
        => IF AcceptableThird(arguments[3])
           THEN ValidationSucceeded
           ELSE phase = "failed" /\ error = "type_error" /\ result_type = NoType

\* the result scale the arguments resolve to
ResolvedScale ==
    IF Len(arguments) = 3 THEN arguments[3].column.data[1]
    ELSE Max(arguments[1].type.scale, arguments[2].type.scale)

\* C6: after a successful validation the result type is the 256-bit decimal
\* of precision 76 whose scale is the third argument when one is given and
\* max(scaleA, scaleB) otherwise, for every pair of operand widths, and the
\* batch executor hands that same scale to the transform.
C6_ResolvedScale ==
    ValidationSucceeded
        => /\ result_type = DecimalType(256, MaxPrecision, ResolvedScale)
           /\ frame # NoFrame
                => /\ frame.result_scale = ResolvedScale
                   /\ frame.scale_a = arguments[1].type.scale
                   /\ frame.scale_b = arguments[2].type.scale

\* a two-argument call on operands of different widths and scales has returned
C6_Witness ==
    /\ phase = "done" /\ returned.present
    /\ Len(arguments) = 2
    /\ arguments[1].type.width = 32 /\ arguments[2].type.width = 128
    /\ arguments[1].type.scale = 0 /\ arguments[2].type.scale = 2
    /\ frame.result_scale = 2

\* the two-argument call multiplyDecimal(1.23, 4.56) has returned
ScenarioProductDone ==
    /\ function = "multiplyDecimal"
    /\ Len(arguments) = 2
    /\ arguments[1].type.scale = 2 /\ arguments[1].column.data = <<123>>
    /\ arguments[2].type.scale = 2 /\ arguments[2].column.data = <<456>>
    /\ phase = "done"

\* C7 as stated: with the scale argument omitted, multiplyDecimal of
\* (123, scale 2) and (456, scale 2) resolves resultScale = 4 and returns
\* 56088 at scale 4.
C7_DefaultScaleIsSum ==
    ScenarioProductDone
        => /\ result_type.scale = 4
           /\ returned = [present |-> TRUE, data |-> <<Wide(FALSE, <<5, 6, 0, 8, 8>>)>>]

\* C7 as amended: with the scale argument omitted, multiplyDecimal of
\* (123, scale 2) and (456, scale 2) resolves resultScale = max(2, 2) = 2 and
\* returns 560 at scale 2, the product truncated to two fractional digits.
C7_DefaultScaleIsMax ==
    ScenarioProductDone
        => /\ result_type.scale = 2
           /\ returned = [present |-> TRUE, data |-> <<Wide(FALSE, <<5, 6, 0>>)>>]

C7_Witness == ScenarioProductDone /\ returned.present

\* the possible outcomes of row j of the batch, as the Processor function of
\* the shape computes it
RowOutcomes(j) ==
    CASE frame.shape = "vectorConstant" ->
            vectorConstant(function, arguments[1].column.data,
                           arguments[2].column.data[1], j,
                           frame.instance.first, frame.instance.second,
                           frame.scale_a, frame.scale_b, frame.result_scale)
      [] frame.shape = "vectorVector" ->
            vectorVector(function, arguments[1].column.data,
                         arguments[2].column.data, j,
                         frame.instance.first, frame.instance.second,
                         frame.scale_a, frame.scale_b, frame.result_scale)
      [] frame.shape = "constantVector" ->
            constantVector(function, arguments[1].column.data[1],
                           arguments[2].column.data, j,
                           frame.instance.first, frame.instance.second,
                           frame.scale_a, frame.scale_b, frame.result_scale)

BatchShapes == {"vectorConstant", "vectorVector", "constantVector"}

InBatch == phase \in {"rows", "done", "failed"} /\ frame.shape \in BatchShapes

ValuesOf(outcomes) == {o.value : o \in {x \in outcomes : x.kind = "value"}}

FailuresOf(outcomes) == {o.kind : o \in {x \in outcomes : x.kind # "value"}}

\* the rows whose evaluation can raise the overflow error
OverflowRows == {j \in 0..(frame.size - 1) : "overflow" \in FailuresOf(RowOutcomes(j))}

\* C9 as stated: if k is the lowest row whose result exceeds 76 digits, the
\* call ends with the overflow error raised at row k and no result column
\* (runs in which the process ended are left aside).
C9_OverflowAtFirstOverflowRow ==
    (InBatch /\ phase \in {"done", "failed"} /\ error # "abort" /\ OverflowRows # {})
        => /\ phase = "failed" /\ error = "overflow"
           /\ \A j \in OverflowRows : row <= j
           /\ row \in OverflowRows
           /\ ~returned.present

\* C9 as amended: rows are evaluated in index order; the first row whose
\* transform does not return a value (overflow or division by zero) ends the
\* call with that row's failure: the rows before it have been evaluated, the
\* rows after it never are, and the caller receives no result column; a
\* column is returned only after every row has returned a value.
C9_FirstFailingRowEndsCall ==
    InBatch
        => /\ \A j \in 0..(row - 1) : vec_to[j + 1] \in ValuesOf(RowOutcomes(j))
           /\ \A j \in row..(frame.size - 1) : vec_to[j + 1] = Wide(FALSE, <<0>>)
           /\ phase = "failed"
                => /\ row < frame.size
                   /\ error \in FailuresOf(RowOutcomes(row))
                   /\ ~returned.present
           /\ phase = "rows" => ~returned.present
           /\ phase = "done"
                => /\ row = frame.size
                   /\ error = "none"
                   /\ returned = [present |-> TRUE, data |-> vec_to]

\* the overflow error has ended a call at its second row, after a first row
\* that returned a value
C9_Witness ==
    /\ InBatch /\ phase = "failed" /\ error = "overflow"
    /\ row = 1 /\ frame.size >= 2
    /\ ~returned.present

Broadcast(v, n) == [k \in 1..n |-> v]

\* the outcomes of row j of the array x array execution on the arguments
\* with the constant one replaced by an array of copies of it
BroadcastRowOutcomes(j) ==
    LET first == IF arguments[1].column.kind = "const"
                 THEN Broadcast(arguments[1].column.data[1], frame.size)
                 ELSE arguments[1].column.data
        second == IF arguments[2].column.kind = "const"
                  THEN Broadcast(arguments[2].column.data[1], frame.size)
                  ELSE arguments[2].column.data
    IN  vectorVector(function, first, second, j,
                     frame.instance.first, frame.instance.second,
                     frame.scale_a, frame.scale_b, frame.result_scale)

\* C10: the array x constant and the constant x array executions produce, row
\* for row and with the same failure, the result of the array x array
\* execution on the broadcast arguments.
C10_ShapeEquivalence ==
    (InBatch /\ frame.shape \in {"vectorConstant", "constantVector"})
        => /\ \A j \in 0..(frame.size - 1) : RowOutcomes(j) = BroadcastRowOutcomes(j)
           /\ \A j \in 0..(row - 1) : vec_to[j + 1] \in ValuesOf(BroadcastRowOutcomes(j))
           /\ phase = "failed" => error \in FailuresOf(BroadcastRowOutcomes(row))
           /\ phase = "done" => returned = [present |-> TRUE, data |-> vec_to]

\* an array x constant call over two different rows has returned its column
C10_Witness ==
    /\ InBatch /\ frame.shape = "vectorConstant" /\ phase = "done"
    /\ frame.size = 2
    /\ arguments[1].column.data[1] # arguments[1].column.data[2]
    /\ returned.present /\ returned.data[1] # returned.data[2]

\* validation has ended, with a type or with a failure
ValidationEnded == phase \notin {"idle", "validate"}

\* C11: with an argument count other than 2 or 3 validation fails with the
\* arity error, and that check comes before any read of an argument: no
\* element of the argument list is read that does not exist.
C11_ArityCheckedFirst ==
    ValidationEnded
        => /\ Len(arguments) \notin {2, 3}
                => /\ phase = "failed" /\ error = "arity_error"
                   /\ result_type = NoType
                   /\ ArgumentsRead(arguments) = {}
           /\ \A i \in ArgumentsRead(arguments) : i < Len(arguments)
           /\ Len(arguments) = 2 => 2 \notin ArgumentsRead(arguments)

\* validation of a list of four arguments has ended in the arity error
C11_Witness ==
    /\ ValidationEnded /\ Len(arguments) = 4
    /\ phase = "failed" /\ error = "arity_error"

\* one of the first two arguments is not a decimal
OperandNotDecimal ==
    /\ Len(arguments) \in {2, 3}
    /\ ~isDecimal(arguments[1].type) \/ ~isDecimal(arguments[2].type)

\* C12: with 2 or 3 arguments of which the first or the second is not a
\* decimal, validation fails with the type error whatever the third argument
\* is, and no result type is produced.
C12_OperandsMustBeDecimal ==
    (ValidationEnded /\ OperandNotDecimal)
        => /\ phase = "failed" /\ error = "type_error"
           /\ result_type = NoType

\* the type error was raised for a non-decimal operand although the third
\* argument is an unsigned integer whose column is not a constant
C12_Witness ==
    /\ ValidationEnded /\ OperandNotDecimal
    /\ Len(arguments) = 3
    /\ isUnsignedInteger(arguments[3].type)
    /\ ~checkAndGetColumnConst(arguments[3])
    /\ error = "type_error"

\* a step of the row loop: one invocation of the transform's execute
RowStep == VectorConstantRow \/ VectorVectorRow \/ ConstantVectorRow

\* nothing of the row loop has happened: no frame, no row, no result cell
NoRowProcessed ==
    /\ frame = NoFrame /\ row = 0 /\ vec_to = <<>> /\ returned = NoColumn

\* the third argument is the UInt16 constant 80
ThirdIsEighty ==
    /\ Len(arguments) = 3
    /\ isDecimal(arguments[1].type) /\ isDecimal(arguments[2].type)
    /\ arguments[3].type = NumberType("UInt", 16)
    /\ checkAndGetColumnConst(arguments[3])
    /\ arguments[3].column.data[1] = MaxPrecision + 4

\* C13: arity and type errors, a third-argument scale of 80 among them, are
\* raised by validation: no transform is invoked on a row before validation
\* has succeeded, and none at all once validation has failed.
C13_ValidationBeforeRows ==
    /\ [](~ValidationEnded => NoRowProcessed)
    /\ []((ValidationEnded /\ getReturnTypeImpl(arguments).kind # "type")
            => /\ phase = "failed"
               /\ error = getReturnTypeImpl(arguments).kind
               /\ NoRowProcessed)
    /\ []((ValidationEnded /\ ThirdIsEighty) => error = "type_error")
    /\ [][RowStep => /\ ValidationEnded
                     /\ getReturnTypeImpl(arguments).kind = "type"
                     /\ result_type = getReturnTypeImpl(arguments).type]_vars

\* validation rejected a scale of 80 and the call ended without a row
C13_Witness ==
    /\ ValidationEnded /\ ThirdIsEighty
    /\ phase = "failed" /\ error = "type_error"
    /\ NoRowProcessed

\* the outcomes the transform of the returned call can produce
OutcomesOfCall ==
    Execute(call.op, call.a, call.b, call.wa, call.wb,
            call.scale_a, call.scale_b, call.result_scale)

\* C14: a row's result is a function of (a, b, scaleA, scaleB, resultScale)
\* only: every execution of the transform on the inputs of the returned call
\* gives the value, or the failure, that this call gave.
C14_RowResultDetermined ==
    pc = "returned"
        => \A o \in OutcomesOfCall : o.kind = ret.kind /\ o.value = ret.value

\* C15: round trip: for every x with 0 <= x <= 2^255 - 1, the values of up to
\* 76 digits and the 77-digit values alike, fromDigits(getDigits(x)) = x.
C15_RoundTrip ==
    (kcall.fn = "fromDigits" /\ ~LimbsNegative(kcall.x)) => kret.value = kcall.x

\* the round trip has been made for 2^255 - 1, a value of 77 digits
C15_Witness ==
    /\ kcall.fn = "fromDigits"
    /\ kcall.x = <<(LimbBase \div 2) - 1>> \o [k \in 1..(LimbCount - 1) |-> LimbBase - 1]
    /\ Len(kret.digits) = MaxPrecision + 1
    /\ kret.value = kcall.x

\* executeImpl has run on arguments that validation accepted
Dispatched ==
    /\ phase \in {"rows", "done", "failed"}
    /\ getReturnTypeImpl(arguments).kind = "type"

\* C16: for each pair (wA, wB) of operand widths in {32, 64, 128, 256} the
\* dispatcher runs the one instantiation of these operand widths with the
\* 256-bit result, and the column it returns is that instantiation's result
\* column, never a null result.
C16_DispatchByWidths ==
    Dispatched
        => /\ arguments[1].type.width \in Widths
           /\ arguments[2].type.width \in Widths
           /\ frame.instance = [first |-> arguments[1].type.width,
                                second |-> arguments[2].type.width,
                                result |-> 256]
           /\ phase = "done"
                => /\ returned.present
                   /\ returned.data = vec_to
                   /\ Len(returned.data) = frame.size

\* the call on a 128-bit and a 64-bit operand returned the column of the
\* (128, 64) -> 256 instantiation
C16_Witness ==
    /\ Dispatched /\ phase = "done"
    /\ arguments[1].type.width = 128 /\ arguments[2].type.width = 64
    /\ frame.instance = [first |-> 128, second |-> 64, result |-> 256]
    /\ returned.present /\ Len(returned.data) = 1

\* C17: the result of multiply is canonical: for non-empty operands it has no
\* leading zero unless it is [0], so its length is the number of digits of
\* the product; for an empty operand it is [0].
C17_MultiplyCanonical ==
    kcall.fn = "multiply"
        => IF kcall.num1 = <<>> \/ kcall.num2 = <<>>
           THEN kret.digits = <<0>>
           ELSE /\ kret.digits = <<0>> \/ kret.digits[1] # 0
                /\ Len(kret.digits) = Len(DigitsProduct(kcall.num1, kcall.num2))

\* the operands of the multiply call are digit sequences of 1 to 76 digits
MultiplyOnDigits ==
    /\ kcall.fn = "multiply"
    /\ Len(kcall.num1) \in 1..MaxPrecision /\ AllDigits(kcall.num1)
    /\ Len(kcall.num2) \in 1..MaxPrecision /\ AllDigits(kcall.num2)

\* C18: for digit sequences A and B of 1 to 76 digits every cell of
\* multiply(A, B) is a digit 0..9 (the final carry added into a cell never
\* takes it above 9) and the value of the result is value(A) * value(B).
C18_MultiplyDigitsAndValue ==
    MultiplyOnDigits
        => /\ AllDigits(kret.digits)
           /\ StripLeadingZeros(kret.digits) = DigitsProduct(kcall.num1, kcall.num2)

\* the product of two sequences of 76 nines, 152 digits, has been computed
C18_Witness ==
    /\ MultiplyOnDigits
    /\ kcall.num1 = [k \in 1..MaxPrecision |-> 9]
    /\ kcall.num2 = [k \in 1..MaxPrecision |-> 9]
    /\ Len(kret.digits) = 2 * MaxPrecision
    /\ kret.digits[1] = 9 /\ kret.digits[2 * MaxPrecision] = 1

\* divide has returned for a positive divisor not above the value of the
\* numerator, so that the quotient has a leading digit
DivideReturned ==
    /\ kcall.fn = "divide" /\ kret.kind = "ok"
    /\ kcall.divisor > 0
    /\ MagCmp(StripLeadingZeros(kcall.num1), NatDigits(kcall.divisor)) >= 0

\* C19: for every numerator and every positive divisor divide keeps the
\* running remainder exact and returns the digits of
\* floor(numerator / divisor), each of them in 0..9.
C19_DivideKeepsRemainder ==
    DivideReturned
        => /\ AllDigits(kret.digits)
           /\ StripLeadingZeros(kret.digits) = DigitsQuotient(kcall.num1, kcall.divisor)

\* the outcomes of divideDecimal on the operands of the returned call with
\* the divisor negated
OutcomesOfNegatedDivisor ==
    DivideExecute(call.a, -call.b, call.wa, call.wb,
                  call.scale_a, call.scale_b, call.result_scale)

\* C20: the divisor the Divide Transform gives to divide is |b|, never the
\* signed value: for b < 0 the divisor of the kernel is positive, and a value
\* divideDecimal(a, b) returns is the negation of a value divideDecimal(a, -b)
\* returns at the same scales.
C20_DivisorIsMagnitude ==
    (pc = "returned" /\ call.op = "divideDecimal" /\ call.b < 0)
        => /\ DivideDivisor(call.b) > 0
           /\ ret.kind = "value"
                => \E o \in OutcomesOfNegatedDivisor :
                      o.kind = "value" /\ ret.value = Wide(~o.value.neg, o.value.mag)

\* the returned call is a division whose padded numerator is below its
\* positive divisor: no zero is appended and |a| < b
NumeratorBelowDivisor ==
    /\ call.op = "divideDecimal"
    /\ call.b > 0 /\ Abs(call.a) < call.b
    /\ call.scale_b <= call.scale_a /\ call.result_scale = 0

\* C21: every call of multiplyDecimal, and every call of divideDecimal with a
\* divisor other than zero, ends after its bounded digit loops with a value or
\* with the overflow error; the seeding loop of divide ends in particular
\* when the padded numerator is below the divisor.
C21_EndsWithValueOrOverflow ==
    (pc = "returned" /\ call.op = "divideDecimal" /\ NumeratorBelowDivisor)
        => ret.kind \in {"value", "overflow"}

\* divide was called with a numerator whose value is below the positive divisor
DivideBelowDivisor ==
    /\ kcall.fn = "divide" /\ kcall.divisor > 0
    /\ MagCmp(StripLeadingZeros(kcall.num1), NatDigits(kcall.divisor)) < 0

\* C22: when the value of the numerator is below the divisor, so that no
\* quotient digit is emitted, divide returns the one-digit sequence [0].
C22_BelowDivisorGivesZero ==
    DivideBelowDivisor => kret.kind = "ok" /\ kret.digits = <<0>>

\* C23: the numerator the Divide Transform gives to divide is the digits of
\* |a| followed by exactly max(0, scaleB - scaleA) + resultScale zeros; for
\* scaleA > scaleB nothing is added or removed for the difference, so the
\* call returns what the call with scaleA set to scaleB returns.
C23_NumeratorPadding ==
    (pc = "returned" /\ call.op = "divideDecimal")
        => /\ DivideNumerator(call.a, call.wa, call.scale_a, call.scale_b,
                              call.result_scale)
                = NatDigits(Abs(call.a))
                    \o Zeros(Max(0, call.scale_b - call.scale_a) + call.result_scale)
           /\ call.scale_a > call.scale_b
                => ret \in DivideExecute(call.a, call.b, call.wa, call.wb,
                                         call.scale_b, call.scale_b,
                                         call.result_scale)

\* 2 / 1 at the scales 1, 0, 0 returned 2, as 2 / 1 at the scales 0, 0, 0 does
C23_Witness ==
    /\ pc = "returned" /\ call.op = "divideDecimal"
    /\ call.a = 2 /\ call.b = 1
    /\ call.scale_a = 1 /\ call.scale_b = 0 /\ call.result_scale = 0
    /\ ret.kind = "value" /\ ret.value = Wide(FALSE, <<2>>)

\* digits without its last n cells; nothing is left when n is not below the length
WithoutLast(digits, n) ==
    IF n >= Len(digits) THEN <<>> ELSE SubSeq(digits, 1, Len(digits) - n)

\* the product digits of the returned call rescaled to the result scale
RescaledProduct ==
    LET product == MultiplyProduct(call.a, call.b, call.wa, call.wb)
        sum == call.scale_a + call.scale_b
    IN  IF call.result_scale > sum THEN product \o Zeros(call.result_scale - sum)
        ELSE IF call.result_scale < sum
        THEN WithoutLast(product, sum - call.result_scale)
        ELSE product

\* C24: multiplyDecimal rescales the product digits before the overflow
\* check: resultScale - (scaleA + scaleB) zeros are appended, or
\* (scaleA + scaleB) - resultScale trailing digits are removed without
\* rounding, or the digits stay as they are when the scales agree.
C24_RescaleBeforeCheck ==
    (pc = "returned" /\ call.op = "multiplyDecimal")
        => IF Len(RescaledProduct) > MaxPrecision
           THEN ret.kind = "overflow"
           ELSE /\ ret.kind = "value"
                /\ ret.value = Returned(Sign(call.a) * Sign(call.b),
                                        RescaledProduct, {}).value

\* getDigits has been applied to a value x >= 0
DigitsOfNonNegative ==
    kcall.fn \in {"getDigits", "fromDigits"} /\ ~LimbsNegative(kcall.x)

\* C25: for x >= 0, getDigits(x) is the decimal representation of x, most
\* significant digit first: every cell is in 0..9, there is no leading zero,
\* getDigits(0) is [0], and there are at most 77 cells.
C25_DigitsAreDecimal ==
    DigitsOfNonNegative
        => /\ AllDigits(kret.digits)
           /\ Len(kret.digits) \in 1..(MaxPrecision + 1)
           /\ kret.digits = <<0>> \/ kret.digits[1] # 0
           /\ kret.digits = <<0>> <=> kcall.x = LimbsOfNat(0)
           /\ HornerLimbs(kret.digits, Len(kret.digits)) = kcall.x

\* getDigits returned the 77 digits of 2^255 - 1
C25_Witness ==
    /\ kcall.fn = "getDigits"
    /\ kcall.x = <<(LimbBase \div 2) - 1>> \o [k \in 1..(LimbCount - 1) |-> LimbBase - 1]
    /\ Len(kret.digits) = MaxPrecision + 1
    /\ kret.digits[1] = 5 /\ kret.digits[MaxPrecision + 1] = 7

\* C26: for every numerator and every positive divisor, each read number[idx]
\* of divide, in the seeding loop and in the quotient loop, its last iteration
\* included, has idx below the length of the numerator.
C26_ReadsInsideNumerator ==
    (kcall.fn = "divide" /\ kcall.divisor > 0)
        => /\ "stray_read" \notin kret.ub
           /\ kret.kind = "ok"

\* the digits multiplyDecimal removes from the product of the returned call
DigitsToRemove == call.scale_a + call.scale_b - call.result_scale

\* C27: when multiplyDecimal downscales, the number of trailing digits it
\* removes, scaleA + scaleB - resultScale, is at most the length of the
\* product sequence: no digit is removed from an empty sequence.
C27_NoPopFromEmpty ==
    (pc = "returned" /\ call.op = "multiplyDecimal" /\ DigitsToRemove > 0)
        => /\ DigitsToRemove
                <= Len(MultiplyProduct(call.a, call.b, call.wa, call.wb))
           /\ "pop_empty" \notin ret.ub

\* |x| of an Int256; 2^255 for the most negative value, which does not fit
LimbsAbs(x) == IF LimbsNegative(x) THEN LimbsNegate(x) ELSE x

\* C28: for an operand of width 32, 64, 128 or 256 holding any value of its
\* range, the most negative one included, value * sign is non-negative and
\* equal to |value|, and the digits made from it are all in 0..9.
C28_MagnitudeIsAbsolute ==
    kcall.fn = "magnitude"
        => /\ kret.kind = "ok"
           /\ ~LimbsNegative(kret.value)
           /\ kret.value = LimbsAbs(kcall.x)
           /\ AllDigits(kret.digits)

\* ---------------------------------------------------------------------
\* LocalConnection: the packets of one query
\* ---------------------------------------------------------------------

\* the blocks a query's source still holds, at most
MaxBlocks == 1

\* the timer-driven Progress packets followed once a query is finished
MaxTimerProgress == 1

\* what executeQuery hands back: the source of the BlockIO (io.out,
\* io.pipeline, io.in or none of them), the blocks left in it, whether it
\* has non-empty totals and extremes, io.null_format, where an exception
\* is thrown, and whether the setting max_execution_time is non-zero
PlainQueries ==
    [source : {"pipeline", "in"},
     blocks : 0..MaxBlocks,
     totals : BOOLEAN,
     extremes : BOOLEAN,
     null_format : {FALSE},
     throws : {"never"},
     max_execution_time : BOOLEAN]

FullQuery(source) ==
    [source |-> source, blocks |-> MaxBlocks, totals |-> TRUE,
     extremes |-> TRUE, null_format |-> FALSE, throws |-> "never",
     max_execution_time |-> FALSE]

Queries ==
    PlainQueries
    \cup {[NoQuery EXCEPT !.source = "out"], NoQuery,
          [NoQuery EXCEPT !.throws = "executeQuery"],
          [FullQuery("pipeline") EXCEPT !.null_format = TRUE]}
    \cup {[FullQuery(source) EXCEPT !.throws = "pullBlock"] :
            source \in {"pipeline", "in"}}

\* the process has not been brought down by a read of the empty state
Alive == reply.value # "abort"

\* the query is over for the client: EndOfStream has been announced
Ended(h) ==
    Len(h.announced) > 0 /\ h.announced[Len(h.announced)] = "EndOfStream"

\* the history after a call that returned r to the client: what poll and
\* receivePacket returned since the query was over
Noted(h, r) ==
    IF Ended(h) /\ r.op \in {"poll", "receivePacket"}
        THEN [h EXCEPT !.since_end = @ \cup {r}]
        ELSE h

\* the history after poll announced packet while the query was finished;
\* the Exception packets, which poll repeats without end, are not followed
Announced(h, finished, packet) ==
    IF finished /\ packet \notin {"none", "Exception"}
        THEN [h EXCEPT !.announced = Append(@, packet)]
        ELSE h

TimerEntries(h) ==
    Cardinality({i \in 1..Len(h.announced) : h.announced[i] = "TimerProgress"})

\* sendQuery: a fresh state, the header of the source as its block, Data
\* announced when there is one; an exception of executeQuery is kept
SendQuery ==
    /\ Alive
    /\ \E q \in Queries :
        LET header == q.source # "none" /\ q.throws # "executeQuery"
        IN  /\ query' = q
            /\ state' = [NoState EXCEPT
                    !.present = TRUE,
                    !.block = IF header THEN "header" ELSE "none",
                    !.executor = header /\ q.source = "pipeline",
                    !.async_in = header /\ q.source = "in",
                    !.exception = (q.throws = "executeQuery")]
            /\ next_packet_type' = IF header THEN "Data" ELSE next_packet_type
    /\ reply' = [op |-> "sendQuery", value |-> "done"]
    /\ history' = NoHistory
    /\ UNCHANGED <<callVars, functionVars, kernelVars, credentialVars>>

\* sendData writes to io.out and leaves the state of the query alone
SendData ==
    /\ Alive
    /\ state.present /\ query.source = "out" /\ ~state.exception
    /\ reply' = [op |-> "sendData", value |-> "done"]
    /\ history' = Noted(history, reply')
    /\ UNCHANGED <<state, next_packet_type, query>>
    /\ UNCHANGED <<callVars, functionVars, kernelVars, credentialVars>>

\* sendCancel cancels the stream or the executor, which then hold no more
\* blocks; without a state it reads through the empty optional, which does
\* nothing or brings the process down
SendCancel ==
    /\ Alive
    /\ IF state.present
        THEN /\ query' = IF state.async_in \/ state.executor
                            THEN [query EXCEPT !.blocks = 0]
                            ELSE query
             /\ reply' = [op |-> "sendCancel", value |-> "done"]
        ELSE /\ query' = query
             /\ \E outcome \in {"done", "abort"} :
                    reply' = [op |-> "sendCancel", value |-> outcome]
    /\ history' = Noted(history, reply')
    /\ UNCHANGED <<state, next_packet_type>>
    /\ UNCHANGED <<callVars, functionVars, kernelVars, credentialVars>>

\* pullBlock: the block read, whether more may follow, the blocks left.
\* The stream gives no block when its poll times out or it is at its end,
\* and pullBlock then returns false; the executor returns true without a
\* block when it times out and false at its end.
pullBlock(st, q) ==
    IF st.async_in
        THEN {[block |-> "none", next_read |-> FALSE, blocks |-> q.blocks]}
             \cup (IF q.blocks > 0
                     THEN {[block |-> "data", next_read |-> TRUE,
                            blocks |-> q.blocks - 1]}
                     ELSE {})
    ELSE IF st.executor
        THEN {[block |-> "none", next_read |-> TRUE, blocks |-> q.blocks]}
             \cup (IF q.blocks > 0
                     THEN {[block |-> "data", next_read |-> TRUE,
                            blocks |-> q.blocks - 1]}
                     ELSE {[block |-> "none", next_read |-> FALSE,
                            blocks |-> 0]})
    ELSE {[block |-> "none", next_read |-> FALSE, blocks |-> q.blocks]}

\* pollImpl inside the try of poll: the state and the source afterwards
pollImpl(st, q) ==
    {[state |-> IF p.block # "none"
                    THEN [st EXCEPT !.block = IF q.null_format
                                                 THEN "empty" ELSE "data"]
                    ELSE IF ~p.next_read
                        THEN [st EXCEPT !.is_finished = TRUE]
                        ELSE st,
      query |-> [q EXCEPT !.blocks = p.blocks]] : p \in pullBlock(st, q)}
    \cup (IF q.throws = "pullBlock" /\ (st.async_in \/ st.executor)
            THEN {[state |-> [st EXCEPT !.exception = TRUE], query |-> q]}
            ELSE {})

\* finishQuery: EndOfStream is the next packet and the state is released
finishQuery(st) ==
    [state |-> IF st.present THEN NoState ELSE st,
     next_packet_type |-> "EndOfStream"]

\* the totals and the extremes come from io.in or from the executor
HasTotals(st, q) ==
    q.totals /\ (q.source = "in" \/ st.executor) /\ q.throws # "executeQuery"

HasExtremes(st, q) ==
    q.extremes /\ (q.source = "in" \/ st.executor) /\ q.throws # "executeQuery"

\* poll after the timer and pollImpl: the state left, the packet announced
\* ("none" when poll announces nothing) and the value returned
pollAnnounceKeepsTotals(st, q) ==
    IF st.exception
        THEN [state |-> st, packet |-> "Exception", value |-> "true"]
    ELSE IF st.is_finished /\ ~st.sent_totals /\ HasTotals(st, q)
        THEN [state |-> [st EXCEPT !.block = "totals"],
              packet |-> "Totals", value |-> "true"]
    ELSE IF st.is_finished /\ ~st.sent_extremes /\ HasExtremes(st, q)
        THEN [state |-> [st EXCEPT !.sent_totals = st.sent_totals,
                                   !.sent_extremes = TRUE,
                                   !.block = "extremes"],
              packet |-> "Extremes", value |-> "true"]
    ELSE IF st.is_finished /\ ~st.sent_progress
        THEN [state |-> [st EXCEPT !.sent_extremes = TRUE,
                                   !.sent_progress = TRUE],
              packet |-> "Progress", value |-> "true"]
    ELSE IF st.is_finished
        THEN [state |-> finishQuery(st).state,
              packet |-> finishQuery(st).next_packet_type, value |-> "true"]
    ELSE IF st.block # "none"
        THEN [state |-> st, packet |-> "Data", value |-> "true"]
    ELSE [state |-> st, packet |-> "none", value |-> "false"]

pollAnnounce(st, q) ==
    IF st.exception
        THEN [state |-> st, packet |-> "Exception", value |-> "true"]
    ELSE IF st.is_finished /\ ~st.sent_totals /\ HasTotals(st, q)
        THEN [state |-> [st EXCEPT !.sent_totals = TRUE, !.block = "totals"],
              packet |-> "Totals", value |-> "true"]
    ELSE IF st.is_finished /\ ~st.sent_extremes /\ HasExtremes(st, q)
        THEN [state |-> [st EXCEPT !.sent_totals = TRUE,
                                   !.sent_extremes = TRUE,
                                   !.block = "extremes"],
              packet |-> "Extremes", value |-> "true"]
    ELSE IF st.is_finished /\ ~st.sent_progress
        THEN [state |-> [st EXCEPT !.sent_totals = TRUE,
                                   !.sent_extremes = TRUE,
                                   !.sent_progress = TRUE],
              packet |-> "Progress", value |-> "true"]
    ELSE IF st.is_finished
        THEN [state |-> finishQuery(st).state,
              packet |-> finishQuery(st).next_packet_type, value |-> "true"]
    ELSE IF st.block # "none"
        THEN [state |-> st, packet |-> "Data", value |-> "true"]
    ELSE [state |-> st, packet |-> "none", value |-> "false"]

\* poll without a state returns false
PollNoState ==
    /\ Alive
    /\ ~state.present
    /\ reply' = [op |-> "poll", value |-> "false"]
    /\ history' = Noted(history, reply')
    /\ UNCHANGED <<state, next_packet_type, query>>
    /\ UNCHANGED <<callVars, functionVars, kernelVars, credentialVars>>

\* poll when interactive_delay has elapsed since the last Progress
PollTimer ==
    /\ Alive
    /\ state.present
    /\ state.is_finished => TimerEntries(history) < MaxTimerProgress
    /\ next_packet_type' = "Progress"
    /\ reply' = [op |-> "poll", value |-> "true"]
    /\ history' = Announced(history, state.is_finished, "TimerProgress")
    /\ UNCHANGED <<state, query>>
    /\ UNCHANGED <<callVars, functionVars, kernelVars, credentialVars>>

\* poll otherwise: pollImpl while the query is not finished, then the
\* packet to announce
PollQuery ==
    /\ Alive
    /\ state.present
    /\ \E o \in (IF ~state.is_finished
                    THEN pollImpl(state, query)
                    ELSE {[state |-> state, query |-> query]}) :
        LET d == pollAnnounce(o.state, o.query)
        IN  /\ state' = d.state
            /\ query' = o.query
            /\ next_packet_type' =
                    IF d.packet = "none" THEN next_packet_type ELSE d.packet
            /\ reply' = [op |-> "poll", value |-> d.value]
            /\ history' = Announced(history, o.state.is_finished, d.packet)
    /\ UNCHANGED <<callVars, functionVars, kernelVars, credentialVars>>

\* receivePacket: EndOfStream without a packet type or a state; otherwise
\* the packet announced, its block moved out of the state, the query
\* finished when max_execution_time has passed, and no packet type left
ReceivePacket ==
    /\ Alive
    /\ IF next_packet_type = "none" \/ ~state.present
        THEN /\ reply' = [op |-> "receivePacket", value |-> "EndOfStream"]
             /\ UNCHANGED <<state, next_packet_type>>
        ELSE /\ reply' = [op |-> "receivePacket", value |-> next_packet_type]
             /\ \E elapsed \in {FALSE, query.max_execution_time} :
                    state' = [state EXCEPT
                        !.block = IF next_packet_type
                                      \in {"Totals", "Extremes", "Data"}
                                    THEN "none" ELSE @,
                        !.is_finished = @ \/ elapsed]
             /\ next_packet_type' = "none"
    /\ history' = Noted(history, reply')
    /\ UNCHANGED query
    /\ UNCHANGED <<callVars, functionVars, kernelVars, credentialVars>>

InitConnection ==
    /\ ConnectionIdle
    /\ CredentialsIdle
    /\ kcall = NoKernelCall
    /\ kret = NoKernelResult
    /\ call = NoCall
    /\ pc = "idle"
    /\ ret = NoOutcome
    /\ function = "none"
    /\ arguments = <<>>
    /\ phase = "idle"
    /\ result_type = NoType
    /\ frame = NoFrame
    /\ row = 0
    /\ vec_to = <<>>
    /\ error = "none"
    /\ returned = NoColumn

NextConnection ==
    \/ SendQuery
    \/ SendData
    \/ SendCancel
    \/ PollNoState
    \/ PollTimer
    \/ PollQuery
    \/ ReceivePacket

SpecConnection == InitConnection /\ [][NextConnection]_vars

IsPrefix(s, t) == Len(s) <= Len(t) /\ s = SubSeq(t, 1, Len(s))

IsTimerProgress(packet) == packet = "TimerProgress"

IsQueryPacket(packet) == ~IsTimerProgress(packet)

\* the packets announced since the query was finished, the timer-driven
\* Progress packets left out
AnnouncedSinceFinished == SelectSeq(history.announced, IsQueryPacket)

\* the packets that close a query without an exception
ClosingPackets ==
    (IF query.totals /\ query.source \in {"in", "pipeline"}
        THEN <<"Totals">> ELSE <<>>)
    \o (IF query.extremes /\ query.source \in {"in", "pipeline"}
        THEN <<"Extremes">> ELSE <<>>)
    \o <<"Progress", "EndOfStream">>

\* C29: for a query that finishes without an exception, the packets poll
\* announces once the query is finished are, in this order and each at most
\* once, Totals (if the totals are non-empty), Extremes (if non-empty), one
\* final Progress and EndOfStream with the state released; only timer-driven
\* Progress packets come in between, no Data packet is announced, and after
\* EndOfStream poll returns false and receivePacket returns EndOfStream
\* until the next sendQuery.
C29_ClosingPacketsInOrder ==
    ~state.exception
        => /\ IsPrefix(AnnouncedSinceFinished, ClosingPackets)
           /\ \A i \in 1..Len(history.announced) :
                    history.announced[i] # "Data"
           /\ Ended(history)
                => /\ ~state.present
                   /\ AnnouncedSinceFinished = ClosingPackets
                   /\ \A r \in history.since_end :
                        /\ r.op = "poll" => r.value = "false"
                        /\ r.op = "receivePacket" => r.value = "EndOfStream"

C29_Witness ==
    /\ AnnouncedSinceFinished = <<"Totals", "Extremes", "Progress", "EndOfStream">>
    /\ TimerEntries(history) > 0
    /\ [op |-> "poll", value |-> "false"] \in history.since_end
    /\ [op |-> "receivePacket", value |-> "EndOfStream"] \in history.since_end
    /\ reply.op = "receivePacket"

\* ---------------------------------------------------------------------
\* S3 credential providers: GetAWSCredentials called from several threads
\* ---------------------------------------------------------------------

Providers == {"InstanceProfile", "STSAssumeRoleWebIdentity"}

\* IsTimeToRefresh(load_frequency_ms) of the instance-profile provider and
\* credentials.IsExpiredOrEmpty() of the STS provider, at the first check
IsTimeToRefresh(c) == c = "expired"

\* a re-check that takes the credentials for expired whatever they are
IsTimeToRefreshAssumed(c) == TRUE

\* the same check made again under the writer lock
IsTimeToRefreshAgain(c) == c = "expired"

\* what Reload leaves: the instance-profile provider records the time of
\* the load whatever the load gave; the STS provider returns early when the
\* token file cannot be opened, and stores the credentials it got, which
\* are empty when the request failed
Reload(p) ==
    IF p = "InstanceProfile" THEN {"fresh"} ELSE {"fresh", "expired"}

\* the provider is constructed; the STS provider is initialized only when
\* the token file and the role are given
Construct ==
    /\ provider = "none"
    /\ \E p \in Providers, i \in BOOLEAN :
        /\ p = "InstanceProfile" => i
        /\ provider' = p
        /\ initialized' = i
    /\ UNCHANGED <<credentials, readers, writer, thread, obtained, refreshes>>
    /\ UNCHANGED <<callVars, functionVars, kernelVars, connectionVars>>

\* GetAWSCredentials is entered: the STS provider that is not initialized
\* returns empty credentials at once, otherwise refreshIfExpired is called
GetAWSCredentials(t) ==
    /\ provider # "none"
    /\ thread[t] = "idle"
    /\ IF provider = "STSAssumeRoleWebIdentity" /\ ~initialized
        THEN /\ obtained' = [obtained EXCEPT ![t] = "empty"]
             /\ UNCHANGED thread
        ELSE /\ thread' = [thread EXCEPT ![t] = "refreshIfExpired"]
             /\ UNCHANGED obtained
    /\ UNCHANGED <<provider, initialized, credentials, readers, writer,
                   refreshes>>
    /\ UNCHANGED <<callVars, functionVars, kernelVars, connectionVars>>

\* ReaderLockGuard guard(m_reloadLock) in refreshIfExpired
RefreshLockReader(t) ==
    /\ thread[t] = "refreshIfExpired"
    /\ writer = 0
    /\ readers' = readers \cup {t}
    /\ thread' = [thread EXCEPT ![t] = "check"]
    /\ UNCHANGED <<provider, initialized, credentials, writer, obtained,
                   refreshes>>
    /\ UNCHANGED <<callVars, functionVars, kernelVars, connectionVars>>

\* the first check: return, the guard releasing the lock, or go on
RefreshCheck(t) ==
    /\ thread[t] = "check"
    /\ IF IsTimeToRefresh(credentials)
        THEN /\ thread' = [thread EXCEPT ![t] = "UpgradeToWriterLock"]
             /\ UNCHANGED readers
        ELSE /\ thread' = [thread EXCEPT ![t] = "GetAWSCredentials"]
             /\ readers' = readers \ {t}
    /\ UNCHANGED <<provider, initialized, credentials, writer, obtained,
                   refreshes>>
    /\ UNCHANGED <<callVars, functionVars, kernelVars, connectionVars>>

\* guard.UpgradeToWriterLock(): the reader lock is released ...
UpgradeUnlockReader(t) ==
    /\ thread[t] = "UpgradeToWriterLock"
    /\ readers' = readers \ {t}
    /\ thread' = [thread EXCEPT ![t] = "LockWriter"]
    /\ UNCHANGED <<provider, initialized, credentials, writer, obtained,
                   refreshes>>
    /\ UNCHANGED <<callVars, functionVars, kernelVars, connectionVars>>

\* ... and the writer lock taken once no thread holds the lock
UpgradeLockWriter(t) ==
    /\ thread[t] = "LockWriter"
    /\ writer = 0 /\ readers = {}
    /\ writer' = t
    /\ thread' = [thread EXCEPT ![t] = "recheck"]
    /\ UNCHANGED <<provider, initialized, credentials, readers, obtained,
                   refreshes>>
    /\ UNCHANGED <<callVars, functionVars, kernelVars, connectionVars>>

\* the second check, under the writer lock: return, the guard releasing
\* the lock, or enter Reload
RefreshRecheck(t) ==
    /\ thread[t] = "recheck"
    /\ IF IsTimeToRefreshAgain(credentials)
        THEN /\ thread' = [thread EXCEPT ![t] = "Reload"]
             /\ UNCHANGED <<writer, refreshes>>
        ELSE /\ thread' = [thread EXCEPT ![t] = "GetAWSCredentials"]
             /\ writer' = IF writer = t THEN 0 ELSE writer
             /\ refreshes' = [refreshes EXCEPT !.skipped = @ \cup {t}]
    /\ UNCHANGED <<provider, initialized, credentials, readers, obtained>>
    /\ UNCHANGED <<callVars, functionVars, kernelVars, connectionVars>>

\* Reload ends and refreshIfExpired returns, the guard releasing the lock
RefreshReload(t) ==
    /\ thread[t] = "Reload"
    /\ \E c \in Reload(provider) :
        /\ credentials' = c
        /\ refreshes' = [refreshes EXCEPT !.refreshed =
                            IF c = "fresh" THEN @ + 1 ELSE @]
    /\ writer' = IF writer = t THEN 0 ELSE writer
    /\ thread' = [thread EXCEPT ![t] = "GetAWSCredentials"]
    /\ UNCHANGED <<provider, initialized, readers, obtained>>
    /\ UNCHANGED <<callVars, functionVars, kernelVars, connectionVars>>

\* ReaderLockGuard guard(m_reloadLock) in GetAWSCredentials
ReadLockReader(t) ==
    /\ thread[t] = "GetAWSCredentials"
    /\ writer = 0
    /\ readers' = readers \cup {t}
    /\ thread' = [thread EXCEPT ![t] = "read"]
    /\ UNCHANGED <<provider, initialized, credentials, writer, obtained,
                   refreshes>>
    /\ UNCHANGED <<callVars, functionVars, kernelVars, connectionVars>>

\* the credentials are read and returned, the guard releasing the lock
ReadCredentials(t) ==
    /\ thread[t] = "read"
    /\ obtained' = [obtained EXCEPT ![t] = credentials]
    /\ readers' = readers \ {t}
    /\ thread' = [thread EXCEPT ![t] = "idle"]
    /\ UNCHANGED <<provider, initialized, credentials, writer, refreshes>>
    /\ UNCHANGED <<callVars, functionVars, kernelVars, connectionVars>>

\* time passes: the credentials held expire
Expire ==
    /\ provider # "none"
    /\ credentials = "fresh"
    /\ refreshes.expiries < MaxExpiries
    /\ credentials' = "expired"
    /\ refreshes' = [refreshed |-> 0, skipped |-> {},
                     expiries |-> refreshes.expiries + 1]
    /\ UNCHANGED <<provider, initialized, readers, writer, thread, obtained>>
    /\ UNCHANGED <<callVars, functionVars, kernelVars, connectionVars>>

InitCredentials ==
    /\ CredentialsIdle
    /\ ConnectionIdle
    /\ kcall = NoKernelCall
    /\ kret = NoKernelResult
    /\ call = NoCall
    /\ pc = "idle"
    /\ ret = NoOutcome
    /\ function = "none"
    /\ arguments = <<>>
    /\ phase = "idle"
    /\ result_type = NoType
    /\ frame = NoFrame
    /\ row = 0
    /\ vec_to = <<>>
    /\ error = "none"
    /\ returned = NoColumn

NextCredentials ==
    \/ Construct
    \/ Expire
    \/ \E t \in Threads :
        \/ GetAWSCredentials(t)
        \/ RefreshLockReader(t)
        \/ RefreshCheck(t)
        \/ UpgradeUnlockReader(t)
        \/ UpgradeLockWriter(t)
        \/ RefreshRecheck(t)
        \/ RefreshReload(t)
        \/ ReadLockReader(t)
        \/ ReadCredentials(t)

SpecCredentials == InitCredentials /\ [][NextCredentials]_vars

\* the threads inside Reload
Reloading == {t \in Threads : thread[t] = "Reload"}

\* the threads at a read of the credentials or of their expiry
ReadingCredentials == {t \in Threads : thread[t] \in {"check", "recheck", "read"}}

\* C30: when several threads call GetAWSCredentials while the credentials
\* are expired, Reload is executed only by the thread holding the writer
\* lock, never together with another Reload or with a read of the
\* credentials by another thread, and a thread that obtains the writer lock
\* after another thread has refreshed finds the credentials fresh and does
\* not reload them a second time.
C30_ReloadUnderWriterLock ==
    /\ \A t \in Reloading :
        /\ writer = t
        /\ Reloading = {t}
        /\ ReadingCredentials \ {t} = {}
        /\ readers = {}
        /\ credentials = "expired"
    /\ refreshes.refreshed <= 1
    /\ \A t \in refreshes.skipped : refreshes.refreshed = 1

C30_Witness ==
    /\ refreshes.refreshed = 1
    /\ refreshes.skipped # {}
    /\ \E t \in refreshes.skipped : obtained[t] = "fresh" /\ thread[t] = "idle"
    /\ refreshes.expiries > 0

====
